---------------------------- MODULE Spec2Model ----------------------------
(***************************************************************************)
(* A model of the UBI device server's flash volume manager (UbiDevice):    *)
(* the attach/detach life cycle of a device handle, the volume operations, *)
(* the format algorithm with its consecutive-bad-block guard, and the      *)
(* chunked volume update.                                                  *)
(*                                                                         *)
(* The parts of the program do not write each other's state (the volume   *)
(* operations write no member of the handle, Format is a static member,    *)
(* UpdateVolume reads the handle's device file name), so the model is the  *)
(* disjoint sum of                                                         *)
(* state machines selected by the variable mode:                           *)
(*   "dev"     life cycle of the handles: construct, attach, detach, move, *)
(*             destroy, with the kernel's attach table                     *)
(*   "devok"   the same, in an environment where no native call fails      *)
(*             unless the kernel's state makes it fail                     *)
(*   "vol"     one handle and the volume operations on it                  *)
(*   "format"  Format / FormatExec / MarkBadBlocks, one block per step     *)
(*   "update"  UpdateVolume / UbiWrite, one read or write call per step    *)
(*   "server"  the Thrift handler UbiDeviceServer over an IUbiDevice       *)
(* Native calls (libubi, libmtd, syscalls) are the environment: their      *)
(* results are chosen nondeterministically among those the call can give.  *)
(***************************************************************************)
EXTENDS Integers, Sequences, FiniteSets, TLC

VARIABLES
    mode,       \* which of the machines this behaviour runs
    handles,    \* dev, vol: the UbiDevice objects
    ubi,        \* dev, vol: kernel attach table, mtd number -> ubi device
    attachments,\* dev, vol: history of successful ubi_attach calls (ghost)
    last,       \* dev, vol: outcome of the last operation (ghost)
    fmt,        \* format: the running Format call (its locals)
    consecutive_bad_blocks, \* format: function-local static of the guard
    prev_bb,    \* format: function-local static of the guard
    upd,        \* update: the running UpdateVolume call (its locals)
    errno,      \* update: the thread's errno
    srv         \* server: the UbiDeviceServer handler object

vars == <<mode, handles, ubi, attachments, last, fmt,
          consecutive_bad_blocks, prev_bb, upd, errno, srv>>

(***************************************************************************)
(* Bounds of the model.                                                    *)
(***************************************************************************)
MaxHandles == 2
MaxMtd == 1
MaxAttach == 2
MaxDetachReqs == 2

HandleIds == 1..MaxHandles
Mtds == 0..MaxMtd

OK == "OK"

(***************************************************************************)
(* Native handle guards.  RAII<T, close> lives in raii.h, which is not     *)
(* part of the sources; the guard is modelled from the specification       *)
(* (section 4.1): a guard releases its handle exactly once when the scope  *)
(* that holds it ends.  Guards of a scope are released in reverse order of *)
(* construction.                                                           *)
(***************************************************************************)
CloseEvent(kind) ==
    CASE kind = "libubi" -> "libubi_close"
      [] kind = "libmtd" -> "libmtd_close"
      [] kind = "fd" -> "close"

RECURSIVE ScopeExit(_)
ScopeExit(guards) ==
    IF guards = <<>> THEN <<>>
    ELSE <<CloseEvent(guards[Len(guards)])>>
         \o ScopeExit(SubSeq(guards, 1, Len(guards) - 1))

\* A return statement: the function's result and the native calls it made,
\* followed by the releases of the guards alive at the return.
Ret(code, calls, guards) ==
    [code |-> code, calls |-> calls \o ScopeExit(guards)]

(***************************************************************************)
(* CreateUbiLibFileHandle: libubi_open, and on failure errno tells whether *)
(* UBI is absent or the open failed.                                       *)
(***************************************************************************)
LibOpenResults == {"ok", "absent", "fail"}

CreateUbiLibFileHandleUnguarded(r) ==
    [ok |-> r = "ok", code |-> OK, calls |-> <<"libubi_open">>,
     guards |-> <<>>]

CreateUbiLibFileHandle(r) ==
    IF r = "ok"
    THEN [ok |-> TRUE, code |-> OK, calls |-> <<"libubi_open">>,
          guards |-> <<"libubi">>]
    ELSE [ok |-> FALSE,
          code |-> IF r = "absent"
                   THEN "OPEN_LIB_UBI__UBI_IS_NOT_PRESENT_IN_THE_SYSTEM"
                   ELSE "OPEN_LIB_UBI__CANNOT_OPEN_LIBUBI_ERROR",
          calls |-> <<"libubi_open_failed">>,
          guards |-> <<>>]

\* A capability check that only asks whether ubi_get_info answered.
CheckKernelSupportInfoOnly(info, ctrl) ==
    IF info = "fail"
    THEN "CHECK_KERNEL_SUPPORT__CANNOT_GET_UBI_INFORMATION_ERROR"
    ELSE OK

\* CheckKernelSupportForAttachDetachRequest: info in {"ok","fail"}, ctrl is
\* TRUE when ubi_info.ctrl_major /= -1.
CheckKernelSupportForAttachDetachRequest(info, ctrl) ==
    IF info = "fail"
    THEN "CHECK_KERNEL_SUPPORT__CANNOT_GET_UBI_INFORMATION_ERROR"
    ELSE IF ~ctrl
    THEN "CHECK_KERNEL_SUPPORT__ATTACH_DETACH_FEATURE_IS_NOT_SUPPORTED"
    ELSE OK

(***************************************************************************)
(* The kernel's attach table.  ubi[m] = -1: mtd m is not attached.         *)
(***************************************************************************)
NoDev == -1

FreeDevNum == CHOOSE n \in 0..MaxMtd :
                 /\ \A m \in Mtds : ubi[m] /= n
                 /\ \A k \in 0..MaxMtd : (\A m \in Mtds : ubi[m] /= k) => n <= k

\* The latest attachment of mtd m in the history (0: none).
RECURSIVE LatestFrom(_, _)
LatestFrom(m, i) ==
    IF i = 0 THEN 0
    ELSE IF attachments[i].mtd = m THEN i ELSE LatestFrom(m, i - 1)

LatestAttachment(m) == LatestFrom(m, Len(attachments))

\* A detach request for mtd m reaches the control device: it is counted for
\* the latest attachment of m.
CountDetachReq(m) ==
    LET i == LatestAttachment(m) IN
    IF i = 0 THEN attachments
    ELSE [attachments EXCEPT ![i].detachReqs = @ + 1]

(***************************************************************************)
(* UbiDevice objects.                                                      *)
(*   st                     "none" (not constructed), "live", "dead"       *)
(*   is_attached_, mtd_num_, ubi_device_file_name_   the members; the file *)
(*   name "/dev/ubi<n>" is n, the empty string is NoDev                    *)
(*   attach_ok (ghost)      Attach() has succeeded on this object, or on   *)
(*                          the object it was moved from                   *)
(***************************************************************************)
NoHandle == [st |-> "none", is_attached_ |-> FALSE, mtd_num_ |-> 0,
             ubi_device_file_name_ |-> NoDev, attach_ok |-> FALSE]

DeadHandle == [NoHandle EXCEPT !.st = "dead"]

\* UbiDevice::UbiDevice(int mtd_num)
Constructed(m) == [NoHandle EXCEPT !.st = "live", !.mtd_num_ = m]

\* The outcome of the last operation: its name, the handle, the returned
\* code ("VOID" for constructors, destructor and moves), the native calls in
\* order, is_attached_ and mtd_num_ before the call, the mtd number a detach
\* request named, the size of a create request, whether a failure was only
\* logged, the size_in_bytes argument, the avail_bytes and the answers of
\* ubi_probe_node and ubi_get_vol_info1_nm the call read, what ubi_get_info
\* told Attach ("unsupported": ctrl_major is -1), the source of a move and
\* the file name it had; for Create, the argument is_to_format_first,
\* whether the name was resolved, the result of Format ("skipped": not
\* called), the result of Attach and whether its ubi_attach attached the
\* partition.
NoOp == [op |-> "none", h |-> 0, code |-> OK, calls |-> <<>>,
         was_attached |-> FALSE, mtd_num_ |-> -1, mtd |-> -1, bytes |-> -1,
         logged |-> FALSE, size |-> 0, avail |-> -1, probe |-> "none",
         volinfo |-> "none", kernel |-> "none", src |-> 0, name |-> -1,
         is_to_format_first |-> FALSE, resolve |-> "none",
         format |-> "none", attach |-> "none", attached |-> FALSE]

Unused == "unused"

\* The handles a machine works on: all of them in "dev", the first in "vol".
ScopeIds == IF mode \in {"dev", "devok", "create"} THEN HandleIds
            ELSE IF mode = "vol" THEN {1} ELSE {}

InitHandles ==
    /\ handles = [h \in HandleIds |-> NoHandle]
    /\ ubi = [m \in Mtds |-> NoDev]
    /\ attachments = <<>>
    /\ last = NoOp

InitDev ==
    /\ mode = "dev"
    /\ srv = Unused
    /\ InitHandles
    /\ fmt = Unused /\ consecutive_bad_blocks = 1 /\ prev_bb = -1
    /\ upd = Unused /\ errno = "ENONE"

InitDevOk ==
    /\ mode = "devok"
    /\ srv = Unused
    /\ InitHandles
    /\ fmt = Unused /\ consecutive_bad_blocks = 1 /\ prev_bb = -1
    /\ upd = Unused /\ errno = "ENONE"

InitVol ==
    /\ mode = "vol"
    /\ srv = Unused
    /\ InitHandles
    /\ fmt = Unused /\ consecutive_bad_blocks = 1 /\ prev_bb = -1
    /\ upd = Unused /\ errno = "ENONE"

(***************************************************************************)
(* Environment of the handles: what the native calls answer.               *)
(***************************************************************************)
OkFail == {"ok", "fail"}

\* Whether native calls may fail for reasons outside the model.
Faults == mode /= "devok"

LibOpens == IF Faults THEN LibOpenResults ELSE {"ok"}
Answers == IF Faults THEN OkFail ELSE {"ok"}
CtrlMajors == IF Faults THEN BOOLEAN ELSE {TRUE}

\* ubi_attach: the kernel rejects the attach of an attached mtd; otherwise
\* the request succeeds or fails (busy flash, no memory, ...).  The history
\* holds at most MaxAttach attachments.
UbiAttachResults(m) ==
    IF ubi[m] /= NoDev THEN {"fail"}
    ELSE IF Len(attachments) >= MaxAttach
    THEN (IF Faults THEN {"fail"} ELSE {})
    ELSE Answers

\* ubi_detach_mtd: fails when the mtd is not attached, may fail when it is
\* (device busy).
UbiDetachResults(m) ==
    IF ubi[m] = NoDev THEN {"fail"} ELSE Answers

(***************************************************************************)
(* UbiDevice::Attach                                                       *)
(***************************************************************************)
AttachRun(h, open, info, ctrl, att, n2d) ==
    LET lib == CreateUbiLibFileHandle(open)
        ks == CheckKernelSupportForAttachDetachRequest(info, ctrl)
        c1 == lib.calls \o <<"ubi_get_info">>
        c2 == c1 \o <<"ubi_attach">>
        c3 == c2 \o <<"mtd_num2ubi_dev">>
    IN  IF ~lib.ok
        THEN [ret |-> Ret(lib.code, lib.calls, lib.guards),
              attached |-> FALSE, h |-> h]
        ELSE IF ks /= OK
        THEN [ret |-> Ret(ks, c1, lib.guards), attached |-> FALSE, h |-> h]
        ELSE IF att = "fail"
        THEN [ret |-> Ret("ATTACH__CANNOT_ATTACH_MTD_DEVICE", c2, lib.guards),
              attached |-> FALSE, h |-> h]
        ELSE IF n2d = "fail"
        THEN [ret |-> Ret("ATTACH__MTD_NUM_TO_UBI_ERROR", c3, lib.guards),
              attached |-> TRUE, h |-> h]
        ELSE [ret |-> Ret(OK, c3, lib.guards),
              attached |-> TRUE,
              h |-> [h EXCEPT !.ubi_device_file_name_ = FreeDevNum,
                              !.is_attached_ = TRUE,
                              !.attach_ok = TRUE]]

Attach(id) ==
    /\ id \in ScopeIds
    /\ handles[id].st = "live"
    /\ \E info \in Answers, ctrl \in CtrlMajors :
       \E r \in {AttachRun(handles[id], open, info, ctrl, att, n2d) :
                    open \in LibOpens,
                    att \in UbiAttachResults(handles[id].mtd_num_),
                    n2d \in Answers} :
          LET m == handles[id].mtd_num_
          IN  /\ handles' = [handles EXCEPT ![id] = r.h]
              /\ ubi' = IF r.attached THEN [ubi EXCEPT ![m] = FreeDevNum]
                        ELSE ubi
              /\ attachments' =
                    IF r.attached
                    THEN Append(attachments, [mtd |-> m, detachReqs |-> 0])
                    ELSE attachments
              /\ last' = [NoOp EXCEPT !.op = "Attach", !.h = id,
                                      !.code = r.ret.code,
                                      !.calls = r.ret.calls,
                                      !.kernel =
                                         IF \A i \in DOMAIN r.ret.calls :
                                               r.ret.calls[i] /= "ubi_get_info"
                                         THEN "none"
                                         ELSE IF info = "fail" THEN "fail"
                                         ELSE IF ctrl THEN "ok"
                                         ELSE "unsupported",
                                      !.mtd_num_ = m,
                                      !.was_attached = handles[id].is_attached_]
    /\ UNCHANGED <<mode, srv, fmt, consecutive_bad_blocks, prev_bb, upd, errno>>

(***************************************************************************)
(* UbiDevice::Detach.  A failed capability check is always reported as     *)
(* "feature not supported".  No statement of Detach writes is_attached_.   *)
(***************************************************************************)
\* The members after a successful ubi_detach_mtd.
DetachUpdate(h) == h

DetachRun(h, open, info, ctrl, det) ==
    LET lib == CreateUbiLibFileHandle(open)
        ks == CheckKernelSupportForAttachDetachRequest(info, ctrl)
        c1 == lib.calls \o <<"ubi_get_info">>
        c2 == c1 \o <<"ubi_detach_mtd">>
    IN  IF ~lib.ok
        THEN [ret |-> Ret(lib.code, lib.calls, lib.guards),
              requested |-> FALSE, detached |-> FALSE, h |-> h]
        ELSE IF ks /= OK
        THEN [ret |-> Ret("CHECK_KERNEL_SUPPORT__ATTACH_DETACH_FEATURE_IS_NOT_SUPPORTED",
                          c1, lib.guards),
              requested |-> FALSE, detached |-> FALSE, h |-> h]
        ELSE IF det = "fail"
        THEN [ret |-> Ret("DETACH__CANNOT_DETACH_MTD_DEVICE_ERROR", c2,
                          lib.guards),
              requested |-> TRUE, detached |-> FALSE, h |-> h]
        ELSE [ret |-> Ret(OK, c2, lib.guards),
              requested |-> TRUE, detached |-> TRUE, h |-> DetachUpdate(h)]

\* What Detach() can do on handle record h, over the environment's answers.
DetachRuns(h) ==
    {DetachRun(h, open, info, ctrl, det) :
        open \in LibOpens, info \in Answers, ctrl \in CtrlMajors,
        det \in UbiDetachResults(h.mtd_num_)}

\* The detach requests counted per attachment stay below the bound.
DetachReqAllowed(m) ==
    LET i == LatestAttachment(m) IN
    IF i = 0 THEN TRUE ELSE attachments[i].detachReqs < MaxDetachReqs

\* The effect of a Detach() call of handle record h on the kernel and on
\* the history.
DetachEffect(h, r) ==
    /\ ubi' = IF r.detached THEN [ubi EXCEPT ![h.mtd_num_] = NoDev] ELSE ubi
    /\ attachments' = IF r.requested THEN CountDetachReq(h.mtd_num_)
                      ELSE attachments

Detach(id) ==
    /\ id \in ScopeIds
    /\ handles[id].st = "live"
    /\ DetachReqAllowed(handles[id].mtd_num_)
    /\ \E r \in DetachRuns(handles[id]) :
          /\ handles' = [handles EXCEPT ![id] = r.h]
          /\ DetachEffect(handles[id], r)
          /\ last' = [NoOp EXCEPT !.op = "Detach", !.h = id,
                                  !.code = r.ret.code,
                                  !.calls = r.ret.calls,
                                  !.mtd = IF r.requested
                                          THEN handles[id].mtd_num_ ELSE -1,
                                  !.mtd_num_ = handles[id].mtd_num_,
                                  !.was_attached = handles[id].is_attached_]
    /\ UNCHANGED <<mode, srv, fmt, consecutive_bad_blocks, prev_bb, upd, errno>>

(***************************************************************************)
(* UbiDevice::~UbiDevice: Detach() if is_attached_, its error only logged. *)
(***************************************************************************)
DestructorSkipsDetach(h) == FALSE

DestructorDetaches(h) == h.is_attached_

Destroy(id) ==
    /\ id \in ScopeIds
    /\ handles[id].st = "live"
    /\ IF DestructorDetaches(handles[id])
       THEN /\ DetachReqAllowed(handles[id].mtd_num_)
            /\ \E r \in DetachRuns(handles[id]) :
                  /\ DetachEffect(handles[id], r)
                  /\ last' = [NoOp EXCEPT !.op = "Destroy", !.h = id,
                                 !.code = "VOID",
                                 !.calls = r.ret.calls,
                                 !.logged = (r.ret.code /= OK),
                                 !.mtd = IF r.requested
                                         THEN handles[id].mtd_num_ ELSE -1,
                                 !.mtd_num_ = handles[id].mtd_num_,
                                 !.was_attached = handles[id].is_attached_]
       ELSE /\ UNCHANGED <<ubi, attachments>>
            /\ last' = [NoOp EXCEPT !.op = "Destroy", !.h = id,
                           !.code = "VOID",
                           !.was_attached = handles[id].is_attached_]
    /\ handles' = [handles EXCEPT ![id] = DeadHandle]
    /\ UNCHANGED <<mode, srv, fmt, consecutive_bad_blocks, prev_bb, upd, errno>>

(***************************************************************************)
(* Construction and moves.                                                 *)
(***************************************************************************)
Construct(id, m) ==
    /\ id \in ScopeIds
    /\ handles[id].st = "none"
    /\ handles' = [handles EXCEPT ![id] = Constructed(m)]
    /\ last' = [NoOp EXCEPT !.op = "Construct", !.h = id, !.code = "VOID"]
    /\ UNCHANGED <<mode, srv, ubi, attachments, fmt, consecutive_bad_blocks,
                   prev_bb, upd, errno>>

\* A moved-from object that keeps its flag.
MovedFromKeepsFlag(s) == [s EXCEPT !.ubi_device_file_name_ = NoDev]

\* The moved-from object: std::swap leaves it the flag false; its int member
\* is copied from, its std::string is left empty.
MovedFrom(s) == [s EXCEPT !.is_attached_ = FALSE,
                          !.ubi_device_file_name_ = NoDev]

\* The target of UbiDevice(UbiDevice&& other) and of operator=(UbiDevice&&):
\* is_attached_ = false, swapped with other's; mtd_num_ and the file name
\* taken from other.
MoveTarget(s) == [s EXCEPT !.st = "live"]

MoveConstruct(d, s) ==
    /\ d \in ScopeIds /\ s \in ScopeIds
    /\ d /= s
    /\ handles[d].st = "none"
    /\ handles[s].st = "live"
    /\ handles' = [handles EXCEPT ![d] = MoveTarget(handles[s]),
                                  ![s] = MovedFrom(handles[s])]
    /\ last' = [NoOp EXCEPT !.op = "MoveConstruct", !.h = d, !.code = "VOID",
                            !.src = s,
                            !.mtd_num_ = handles[s].mtd_num_,
                            !.name = handles[s].ubi_device_file_name_,
                            !.was_attached = handles[s].is_attached_]
    /\ UNCHANGED <<mode, srv, ubi, attachments, fmt, consecutive_bad_blocks,
                   prev_bb, upd, errno>>

\* operator=(UbiDevice&& other): the target's own attachment, if any, is
\* forgotten (is_attached_ = false before the swap); Detach() is not called.
MoveAssign(d, s) ==
    /\ d \in ScopeIds /\ s \in ScopeIds
    /\ handles[d].st = "live"
    /\ handles[s].st = "live"
    /\ handles' = IF d = s THEN handles
                  ELSE [handles EXCEPT ![d] = MoveTarget(handles[s]),
                                       ![s] = MovedFrom(handles[s])]
    /\ last' = [NoOp EXCEPT !.op = "MoveAssign", !.h = d, !.code = "VOID",
                            !.src = s,
                            !.mtd_num_ = handles[s].mtd_num_,
                            !.name = handles[s].ubi_device_file_name_,
                            !.was_attached = handles[s].is_attached_]
    /\ UNCHANGED <<mode, srv, ubi, attachments, fmt, consecutive_bad_blocks,
                   prev_bb, upd, errno>>

NextDev ==
    \/ \E id \in HandleIds, m \in Mtds : Construct(id, m)
    \/ \E id \in HandleIds : Attach(id)
    \/ \E id \in HandleIds : Detach(id)
    \/ \E id \in HandleIds : Destroy(id)
    \/ \E d \in HandleIds, s \in HandleIds : MoveConstruct(d, s)
    \/ \E d \in HandleIds, s \in HandleIds : MoveAssign(d, s)

SpecDev == InitDev /\ [][NextDev]_vars

SpecDevOk == InitDevOk /\ [][NextDev]_vars

(***************************************************************************)
(* UbiDevice::Create(mtd_device_name, is_to_format_first): the name is     *)
(* resolved through MtdTable, the partition is formatted when asked, a     *)
(* local UbiDevice is constructed and attached, and the returned object is *)
(* move-constructed from it.  Format is the machine of SpecFormat; here    *)
(* it is the code it returns.                                              *)
(***************************************************************************)
InitCreate ==
    /\ mode = "create"
    /\ srv = Unused
    /\ InitHandles
    /\ fmt = Unused /\ consecutive_bad_blocks = 1 /\ prev_bb = -1
    /\ upd = Unused /\ errno = "ENONE"

\* The error codes Format returns.
FormatErrors ==
    {"OPEN_LIB_MTD__MTD_IS_NOT_PRESENT_IN_THE_SYSTEM",
     "OPEN_LIB_MTD__CANNOT_OPEN_LIBMTD_ERROR",
     "OPEN_LIB_UBI__UBI_IS_NOT_PRESENT_IN_THE_SYSTEM",
     "OPEN_LIB_UBI__CANNOT_OPEN_LIBUBI_ERROR",
     "CANNOT_OPEN_MTD_DEVICE_FILE_ERROR",
     "FORMAT__MTD_GET_INFO_FAILURE_ERROR",
     "FORMAT__MTD_GET_DEV_INFO_FAILURE_ERROR",
     "FORMAT__MIN_IO_SIZE_NOT_POWER_OF_2_ERROR",
     "FORMAT__MTD_DEVICE_IS_A_READ_ONLY_DEVICE_ERROR",
     "FORMAT__MTD_DEVICE_IS_ALREADY_ATTACHED_TO_UBI_DEVICE_ERROR",
     "FORMAT__UBI_SCAN_FAILURE_ERROR",
     "FORMAT__BAD_ERASEBLOCKS_AFTER_SCAN_ERROR",
     "FORMAT__TOO_FEW_NON_BAD_ERASE_BLOCKS_AFTER_SCAN_ERROR",
     "FORMAT__FAILED_TO_ERASE_ERASEBLOCK_ERROR",
     "FORMAT__MARK_BAD_FAILED_ERROR",
     "FORMAT__CANNOT_WRITE_EC_HEADER",
     "FORMAT__NO_ERASEBLOCKS_FOR_VOLUME_TABLE_ERROR",
     "FORMAT__UBIGEN_CREATE_EMPTY_VTBL_ERROR",
     "FORMAT__CANNOT_WRITE_LAYOUT_VOLUME"}

\* if (is_to_format_first)
FormatAlways(is_to_format_first) == TRUE

FormatRequested(is_to_format_first) == is_to_format_first

\* Create into the slot id of the returned object.  table and found are
\* the answers of MtdTable::Create and GetMtdNum, m the resolved number.
Create(id) ==
    /\ mode = "create" /\ id \in ScopeIds
    /\ handles[id].st = "none"
    /\ UNCHANGED <<mode, srv, fmt, consecutive_bad_blocks, prev_bb, upd, errno>>
    /\ \E table \in Answers, found \in BOOLEAN, m \in Mtds,
          is_to_format_first \in BOOLEAN :
         LET Done(code, calls, resolve, format, attach) ==
                 [NoOp EXCEPT !.op = "Create", !.h = id, !.code = code,
                              !.calls = calls, !.mtd_num_ = m,
                              !.is_to_format_first = is_to_format_first,
                              !.resolve = resolve, !.format = format,
                              !.attach = attach]
             c0 == <<"MtdTable::Create">>
             c1 == c0 \o <<"GetMtdNum">>
         IN
         IF table = "fail"
         THEN /\ last' = Done("CREATE__MTD_TABLE_CREATE_FAILED_ERROR", c0,
                              "table", "none", "none")
              /\ UNCHANGED <<handles, ubi, attachments>>
         ELSE IF ~found
         THEN /\ last' = Done("CREATE__MTD_NAME_TO_NUM_NOT_FOUND_ERROR", c1,
                              "name", "none", "none")
              /\ UNCHANGED <<handles, ubi, attachments>>
         ELSE
         \E format \in IF FormatRequested(is_to_format_first)
                       THEN {OK} \cup FormatErrors ELSE {"skipped"} :
           LET c2 == IF format = "skipped" THEN c1 ELSE c1 \o <<"Format">>
           IN
           IF format \in FormatErrors
           THEN /\ last' = Done(format, c2, "ok", format, "none")
                /\ UNCHANGED <<handles, ubi, attachments>>
           ELSE
           \E info \in Answers, ctrl \in CtrlMajors :
           \E r \in {AttachRun(Constructed(m), open, info, ctrl, att, n2d) :
                        open \in LibOpens, att \in UbiAttachResults(m),
                        n2d \in Answers} :
             LET ubi1 == IF r.attached THEN [ubi EXCEPT ![m] = FreeDevNum]
                         ELSE ubi
                 att1 == IF r.attached
                         THEN Append(attachments,
                                     [mtd |-> m, detachReqs |-> 0])
                         ELSE attachments
                 c3 == c2 \o r.ret.calls
                 ok == r.ret.code = OK
                 local == IF ok THEN MovedFrom(r.h) ELSE r.h
                 record == [Done(r.ret.code, c3, "ok", format, r.ret.code)
                               EXCEPT !.attached = r.attached]
             IN
             /\ handles' = IF ok
                           THEN [handles EXCEPT ![id] = MoveTarget(r.h)]
                           ELSE handles
             /\ IF DestructorDetaches(local)
                THEN \E d \in {DetachRun(local, open, dinfo, dctrl, det) :
                                  open \in LibOpens, dinfo \in Answers,
                                  dctrl \in CtrlMajors, det \in Answers} :
                       /\ ubi' = IF d.detached THEN [ubi1 EXCEPT ![m] = NoDev]
                                 ELSE ubi1
                       /\ attachments' =
                             IF d.requested
                             THEN [att1 EXCEPT ![Len(att1)].detachReqs = @ + 1]
                             ELSE att1
                       /\ last' = [record EXCEPT !.calls = @ \o d.ret.calls]
                ELSE /\ ubi' = ubi1
                     /\ attachments' = att1
                     /\ last' = record

NextCreate ==
    \/ \E id \in HandleIds : Create(id)
    \/ \E id \in HandleIds : Detach(id)
    \/ \E id \in HandleIds : Destroy(id)

SpecCreate == InitCreate /\ [][NextCreate]_vars

(***************************************************************************)
(* Volume operations.  None of them reads is_attached_: each opens libubi  *)
(* and probes ubi_device_file_name_, whatever the state of the handle.     *)
(***************************************************************************)
MaxBytes == 2

\* ubi_probe_node on the handle's device file name: the empty name cannot
\* be stat-ed; a name whose ubi device is gone gives ENODEV or another
\* error; an existing node is a device node or (ret = 2) a volume node.
ProbeResults(h) ==
    IF h.ubi_device_file_name_ = NoDev THEN {"err"}
    ELSE IF \A m \in Mtds : ubi[m] /= h.ubi_device_file_name_
    THEN {"enodev", "err"}
    ELSE {"dev", "vol", "enodev", "err"}

\* UbiDevice::UbiProbeNode
UbiProbeNode(probe) ==
    CASE probe = "dev" -> OK
      [] probe = "vol" -> "NOT_AN_UBI_DEVICE_NODE_ERROR"
      [] probe = "enodev" -> "NOT_AN_UBI_DEVICE_NODE_ERROR"
      [] probe = "err" -> "PROBE_NODE_ERROR"

\* req.bytes = (size_in_bytes == 0 ? dev_info.avail_bytes : size_in_bytes)
MkvolBytesAsGiven(size_in_bytes, avail_bytes) == size_in_bytes

MkvolBytes(size_in_bytes, avail_bytes) ==
    IF size_in_bytes = 0 THEN avail_bytes ELSE size_in_bytes

\* UbiDevice::MakeVolume.  bytes is the size of the create request (-1: no
\* request was issued), avail the dev_info.avail_bytes the call read (-1:
\* it read none).
MakeVolumeRun(size_in_bytes, open, probe, devinfo, avail_bytes, mkvol) ==
    LET lib == CreateUbiLibFileHandle(open)
        c1 == lib.calls \o <<"ubi_probe_node">>
        c2 == c1 \o <<"ubi_get_dev_info">>
        c3 == c2 \o <<"ubi_mkvol">>
        req_bytes == MkvolBytes(size_in_bytes, avail_bytes)
    IN  IF ~lib.ok
        THEN [ret |-> Ret(lib.code, lib.calls, lib.guards), bytes |-> -1,
              avail |-> -1]
        ELSE IF UbiProbeNode(probe) /= OK
        THEN [ret |-> Ret("UBI_PROBE_NODE_FAILED_ERROR", c1, lib.guards),
              bytes |-> -1, avail |-> -1]
        ELSE IF devinfo = "fail"
        THEN [ret |-> Ret("MAKE_VOLUME__UBI_GET_DEV_INFO_ERROR", c2, lib.guards),
              bytes |-> -1, avail |-> -1]
        ELSE IF avail_bytes = 0
        THEN [ret |-> Ret("MAKE_VOLUME__UBI_DEVICE_NOT_ENOUGH_FREE_LOGICAL_ERASEBLOCKS_ERROR",
                          c2, lib.guards),
              bytes |-> -1, avail |-> avail_bytes]
        ELSE IF mkvol = "fail"
        THEN [ret |-> Ret("MAKE_VOLUME__GENERAL_ERROR", c3, lib.guards),
              bytes |-> req_bytes, avail |-> avail_bytes]
        ELSE [ret |-> Ret(OK, c3, lib.guards), bytes |-> req_bytes,
              avail |-> avail_bytes]

MakeVolume(id) ==
    /\ mode = "vol" /\ id \in ScopeIds
    /\ handles[id].st = "live"
    /\ \E size_in_bytes \in 0..MaxBytes,
          probe \in ProbeResults(handles[id]) :
       \E r \in {MakeVolumeRun(size_in_bytes, open, probe, devinfo,
                               avail_bytes, mkvol) :
                    open \in LibOpens, devinfo \in Answers,
                    avail_bytes \in 0..MaxBytes, mkvol \in Answers} :
          last' = [NoOp EXCEPT !.op = "MakeVolume", !.h = id,
                               !.code = r.ret.code, !.calls = r.ret.calls,
                               !.bytes = r.bytes, !.size = size_in_bytes,
                               !.avail = r.avail,
                               !.probe = IF r.ret.calls[Len(r.ret.calls)] = "libubi_open_failed"
                                         THEN "none" ELSE probe,
                               !.was_attached = handles[id].is_attached_]
    /\ UNCHANGED <<mode, srv, handles, ubi, attachments, fmt,
                   consecutive_bad_blocks, prev_bb, upd, errno>>

\* if (ret) after ubi_get_vol_info1_nm: no volume has the name.
VolInfoIgnored(volinfo) == FALSE

VolInfoMissing(volinfo) == volinfo = "fail"

\* UbiDevice::RemoveVolume
RemoveVolumeRun(open, probe, devinfo, volinfo, rmvol) ==
    LET lib == CreateUbiLibFileHandle(open)
        c1 == lib.calls \o <<"ubi_probe_node">>
        c2 == c1 \o <<"ubi_get_dev_info">>
        c3 == c2 \o <<"ubi_get_vol_info1_nm">>
        c4 == c3 \o <<"ubi_rmvol">>
    IN  IF ~lib.ok THEN Ret(lib.code, lib.calls, lib.guards)
        ELSE IF UbiProbeNode(probe) /= OK
        THEN Ret("UBI_PROBE_NODE_FAILED_ERROR", c1, lib.guards)
        ELSE IF devinfo = "fail"
        THEN Ret("REMOVE_VOLUME__CANNOT_FIND_INFORMATION_ABOUT_UBI_DEVICE_ERROR",
                 c2, lib.guards)
        ELSE IF VolInfoMissing(volinfo)
        THEN Ret("CANNOT_FIND_UBI_VOLUME_ERROR", c3, lib.guards)
        ELSE IF rmvol = "fail"
        THEN Ret("REMOVE_VOLUME__GENERAL_ERROR", c4, lib.guards)
        ELSE Ret(OK, c4, lib.guards)

RemoveVolume(id) ==
    /\ mode = "vol" /\ id \in ScopeIds
    /\ handles[id].st = "live"
    /\ \E volinfo \in Answers :
       \E r \in {RemoveVolumeRun(open, probe, devinfo, volinfo, rmvol) :
                    open \in LibOpens,
                    probe \in ProbeResults(handles[id]),
                    devinfo \in Answers, rmvol \in Answers} :
          last' = [NoOp EXCEPT !.op = "RemoveVolume", !.h = id,
                               !.code = r.code, !.calls = r.calls,
                               !.volinfo =
                                  IF \E i \in DOMAIN r.calls :
                                        r.calls[i] = "ubi_get_vol_info1_nm"
                                  THEN volinfo ELSE "none",
                               !.was_attached = handles[id].is_attached_]
    /\ UNCHANGED <<mode, srv, handles, ubi, attachments, fmt,
                   consecutive_bad_blocks, prev_bb, upd, errno>>

\* UbiDevice::GetUbiVolumeFile
GetUbiVolumeFileRun(open, probe, devinfo, volinfo) ==
    LET lib == CreateUbiLibFileHandle(open)
        c1 == lib.calls \o <<"ubi_probe_node">>
        c2 == c1 \o <<"ubi_get_dev_info">>
        c3 == c2 \o <<"ubi_get_vol_info1_nm">>
    IN  IF ~lib.ok THEN Ret(lib.code, lib.calls, lib.guards)
        ELSE IF UbiProbeNode(probe) /= OK
        THEN Ret("UBI_PROBE_NODE_FAILED_ERROR", c1, lib.guards)
        ELSE IF devinfo = "fail"
        THEN Ret("REMOVE_VOLUME__CANNOT_FIND_INFORMATION_ABOUT_UBI_DEVICE_ERROR",
                 c2, lib.guards)
        ELSE IF volinfo = "fail"
        THEN Ret("CANNOT_FIND_UBI_VOLUME_ERROR", c3, lib.guards)
        ELSE Ret(OK, c3, lib.guards)

GetUbiVolumeFile(id) ==
    /\ mode = "vol" /\ id \in ScopeIds
    /\ handles[id].st = "live"
    /\ \E r \in {GetUbiVolumeFileRun(open, probe, devinfo, volinfo) :
                    open \in LibOpens,
                    probe \in ProbeResults(handles[id]),
                    devinfo \in Answers, volinfo \in Answers} :
          last' = [NoOp EXCEPT !.op = "GetUbiVolumeFile", !.h = id,
                               !.code = r.code, !.calls = r.calls,
                               !.was_attached = handles[id].is_attached_]
    /\ UNCHANGED <<mode, srv, handles, ubi, attachments, fmt,
                   consecutive_bad_blocks, prev_bb, upd, errno>>

\* UbiDevice::MountVolume: GetUbiVolumeFile, then mount(2).
MountVolumeRun(open, probe, devinfo, volinfo, mnt) ==
    LET f == GetUbiVolumeFileRun(open, probe, devinfo, volinfo)
    IN  IF f.code /= OK THEN f
        ELSE IF mnt = "fail"
        THEN Ret("MOUNT_VOLUME__MOUNT_FAILED_ERROR", f.calls \o <<"mount">>, <<>>)
        ELSE Ret(OK, f.calls \o <<"mount">>, <<>>)

MountVolume(id) ==
    /\ mode = "vol" /\ id \in ScopeIds
    /\ handles[id].st = "live"
    /\ \E r \in {MountVolumeRun(open, probe, devinfo, volinfo, mnt) :
                    open \in LibOpens,
                    probe \in ProbeResults(handles[id]),
                    devinfo \in Answers, volinfo \in Answers, mnt \in Answers} :
          last' = [NoOp EXCEPT !.op = "MountVolume", !.h = id,
                               !.code = r.code, !.calls = r.calls,
                               !.was_attached = handles[id].is_attached_]
    /\ UNCHANGED <<mode, srv, handles, ubi, attachments, fmt,
                   consecutive_bad_blocks, prev_bb, upd, errno>>

\* UbiDevice::UnmountVolume: umount(2).
UnmountVolume(id) ==
    /\ mode = "vol" /\ id \in ScopeIds
    /\ handles[id].st = "live"
    /\ \E um \in Answers :
          last' = [NoOp EXCEPT !.op = "UnmountVolume", !.h = id,
                      !.code = IF um = "ok" THEN OK
                               ELSE "UNMOUNT_VOLUME__UMOUNT_FAILED_ERROR",
                      !.calls = <<"umount">>,
                      !.was_attached = handles[id].is_attached_]
    /\ UNCHANGED <<mode, srv, handles, ubi, attachments, fmt,
                   consecutive_bad_blocks, prev_bb, upd, errno>>

NextVol ==
    \/ \E m \in Mtds : Construct(1, m)
    \/ Attach(1)
    \/ Detach(1)
    \/ Destroy(1)
    \/ MakeVolume(1)
    \/ RemoveVolume(1)
    \/ GetUbiVolumeFile(1)
    \/ MountVolume(1)
    \/ UnmountVolume(1)

SpecVol == InitVol /\ [][NextVol]_vars

(***************************************************************************)
(* Format.  UbiDevice::Format(mtd_num) is static: it touches no handle.    *)
(* The partition is what the native calls report about it: the geometry    *)
(* from mtd_get_dev_info, the erase-counter table si->ec from ubi_scan.    *)
(* The guard's two statics live as long as the process: Format calls       *)
(* follow one another in the same behaviour.                               *)
(***************************************************************************)
EbCnt == 4
MaxEc == 0
MaxRuns == 2
MaxMinIoSize == 3
kMaxConsecutiveBadBlocks == 4

Ebs == 0..(EbCnt - 1)
MinIoSizes == {0} \cup (2..MaxMinIoSize)

\* The entries of si->ec: a bad block, an empty block (a value above
\* EC_MAX), or a valid erase counter.
EB_BAD == [kind |-> "EB_BAD", ec |-> 0]
EB_EMPTY == [kind |-> "EB_EMPTY", ec |-> 0]
ValidEc(n) == [kind |-> "ec", ec |-> n]
ScanEntries == {EB_BAD, EB_EMPTY} \cup {ValidEc(n) : n \in 0..MaxEc}
Scans == [Ebs -> ScanEntries]

\* The counts ubi_scan reports with the table.
GoodCntOfCounted(ec) == Cardinality({eb \in Ebs : ec[eb].kind = "ec"})

GoodCnt(ec) == Cardinality({eb \in Ebs : ec[eb] /= EB_BAD})
OkCnt(ec) == Cardinality({eb \in Ebs : ec[eb].kind = "ec"})
EmptyCnt(ec) == Cardinality({eb \in Ebs : ec[eb] = EB_EMPTY})
BadCnt(ec) == Cardinality({eb \in Ebs : ec[eb] = EB_BAD})

\* n & m on naturals.
RECURSIVE BitAnd(_, _)
BitAnd(n, m) ==
    IF n = 0 \/ m = 0 THEN 0
    ELSE (n % 2) * (m % 2) + 2 * BitAnd(n \div 2, m \div 2)

IsNonZero(n) == n /= 0

\* is_power_of_2 of mtd-utils: n != 0 && (n & (n - 1)) == 0
is_power_of_2(n) == n /= 0 /\ BitAnd(n, n - 1) = 0

NoScan == [eb \in Ebs |-> EB_BAD]

\* The locals of Format and FormatExec.
\*   run         the number of Format calls so far (ghost)
\*   pc          "idle": no call is running, code is the last result;
\*               "loop": inside FormatExec's loop, before block eb
\*   code, cause the returned ErrorCode and the innermost error logged
\*   calls       the native calls of the run, in order (ghost)
\*   guards      the guards alive in Format's scope
\*   scan        si->ec as ubi_scan returned it (ghost)
\*   ec, bad_cnt si->ec and si->bad_cnt
\*   marked      the blocks mtd_mark_bad has marked in this run (ghost)
\*   ops         the native calls issued on each block (ghost)
\*   prev        the code and cause of the call before, when that call
\*               ended in an error of MarkBadBlocks (ghost)
\*   res         for each block, what mtd_erase, mtd_write and mtd_torture
\*               answered on it and the erase counter computed for it
\*               (ghost)
\*   layout      the arguments of ubigen_write_layout_vol, n the number of
\*               its calls (ghost)
NoRes == [erase |-> "none", write |-> "none", torture |-> "none", ec |-> -1]

NoLayout == [eb1 |-> -1, eb2 |-> -1, ec1 |-> -1, ec2 |-> -1, n |-> 0]

NoPrev == [code |-> "NONE", cause |-> "NONE"]

MarkBadBlocksErrors ==
    {"FORMAT__BAD_BLOCK_NOT_SUPPORTED_BY_THIS_FLASH_ERROR",
     "FORMAT__MTD_MARK_BAD_FAILED_ERROR",
     "FORMAT__CONSECUTIVE_BAD_BLOCKS_EXCEED_LIMIT_ERROR"}

IdleFmt ==
    [run |-> 0, pc |-> "idle", code |-> "NONE", cause |-> "NONE", calls |-> <<>>,
     guards |-> <<>>, min_io_size |-> -1, bb_allowed |-> FALSE,
     scanned |-> FALSE, scan |-> NoScan, ec |-> NoScan, bad_cnt |-> 0,
     mean_ec |-> 0, override_ec |-> 0, format_ec |-> 0,
     eb |-> 0, eb1 |-> -1, eb2 |-> -1, ec1 |-> -1, ec2 |-> -1,
     marked |-> <<>>, ops |-> [eb \in Ebs |-> <<>>], prev |-> NoPrev,
     res |-> [eb \in Ebs |-> NoRes], layout |-> NoLayout]

\* The partition Format is called on.
FormatMtd == 0

\* The partition is attached to UBI, or it is not, when Format is called.
FormatAttachTables ==
    {[m \in Mtds |-> NoDev],
     [m \in Mtds |-> IF m = FormatMtd THEN 0 ELSE NoDev]}

\* mtd_num2ubi_dev answers 0 ("ok") only for an attached mtd; it answers -1
\* for one that is not attached (ENODEV) and when it fails to read the UBI
\* information.
Mtd2UbiDevResults(m) == IF ubi[m] /= NoDev THEN Answers ELSE {"fail"}

InitFormat ==
    /\ mode = "format"
    /\ srv = Unused
    /\ handles = [h \in HandleIds |-> NoHandle]
    /\ ubi \in FormatAttachTables
    /\ attachments = <<>>
    /\ last = NoOp
    /\ fmt = IdleFmt /\ consecutive_bad_blocks = 1 /\ prev_bb = -1
    /\ upd = Unused /\ errno = "ENONE"

\* A return statement of Format or FormatExec in the state f of the locals:
\* the guards of Format's scope are released.
FormatReturn(f, code, cause, calls) ==
    /\ fmt' = [f EXCEPT !.pc = "idle", !.code = code, !.cause = cause,
                        !.calls = f.calls \o calls \o ScopeExit(f.guards),
                        !.guards = <<>>]
    /\ UNCHANGED <<mode, srv, handles, ubi, attachments, last, upd, errno>>

\* No override: format_attr.override_ec and format_attr.ec as constructed.
EcPolicyNone(ec, mean_ec) == [format_ec |-> 0, override_ec |-> 0]

\* The erase-counter policy of Format: with some non-empty good block and
\* under 50 percent of the good blocks carrying a valid counter, 0 is used
\* for every block.  The second branch repeats the first one's condition.
EcPolicy(ec, mean_ec) ==
    LET percent == (OkCnt(ec) * 100) \div GoodCnt(ec)
    IN  IF EmptyCnt(ec) < GoodCnt(ec)
        THEN IF percent < 50
             THEN [format_ec |-> 0, override_ec |-> 1]
             ELSE IF percent < 50
             THEN [format_ec |-> mean_ec, override_ec |-> 1]
             ELSE [format_ec |-> 0, override_ec |-> 0]
        ELSE [format_ec |-> 0, override_ec |-> 0]

\* Format after ubi_scan has succeeded with table si and mean counter mean.
FormatScanned(f, si, mean) ==
    LET g == [f EXCEPT !.calls = @ \o <<"ubi_scan">>, !.scanned = TRUE,
                       !.scan = si, !.ec = si, !.bad_cnt = BadCnt(si),
                       !.mean_ec = mean]
        p == EcPolicy(si, mean)
    IN  IF GoodCnt(si) = 0
        THEN FormatReturn(g, "FORMAT__BAD_ERASEBLOCKS_AFTER_SCAN_ERROR",
                          "FORMAT__BAD_ERASEBLOCKS_AFTER_SCAN_ERROR", <<>>)
        ELSE IF GoodCnt(si) < 2
        THEN FormatReturn(g,
                 "FORMAT__TOO_FEW_NON_BAD_ERASE_BLOCKS_AFTER_SCAN_ERROR",
                 "FORMAT__TOO_FEW_NON_BAD_ERASE_BLOCKS_AFTER_SCAN_ERROR", <<>>)
        ELSE /\ fmt' = [g EXCEPT !.pc = "loop", !.code = "RUNNING",
                                 !.format_ec = p.format_ec,
                                 !.override_ec = p.override_ec]
             /\ UNCHANGED <<mode, srv, handles, ubi, attachments, last, upd, errno>>

\* Format with the device node open (guards libmtd, fd): the writable
\* check, libubi, the attach check, the scan.
FormatOpened(f) ==
    \E writable \in BOOLEAN, ubiopen \in LibOpens :
      LET lib == CreateUbiLibFileHandle(ubiopen)
          g == [f EXCEPT !.calls = @ \o lib.calls,
                         !.guards = @ \o lib.guards]
      IN
      IF ~writable
      THEN FormatReturn(f, "FORMAT__MTD_DEVICE_IS_A_READ_ONLY_DEVICE_ERROR",
                        "FORMAT__MTD_DEVICE_IS_A_READ_ONLY_DEVICE_ERROR", <<>>)
      ELSE IF ~lib.ok
      THEN FormatReturn(g, lib.code, lib.code, <<>>)
      ELSE \E n2d \in Mtd2UbiDevResults(FormatMtd), scan \in Answers :
             IF n2d = "ok"
             THEN FormatReturn(g,
                   "FORMAT__MTD_DEVICE_IS_ALREADY_ATTACHED_TO_UBI_DEVICE_ERROR",
                   "FORMAT__MTD_DEVICE_IS_ALREADY_ATTACHED_TO_UBI_DEVICE_ERROR",
                   <<"mtd_num2ubi_dev">>)
             ELSE IF scan = "fail"
             THEN FormatReturn(g, "FORMAT__UBI_SCAN_FAILURE_ERROR",
                               "FORMAT__UBI_SCAN_FAILURE_ERROR",
                               <<"mtd_num2ubi_dev", "ubi_scan">>)
             ELSE \E si \in Scans, mean \in 0..MaxEc :
                    FormatScanned([g EXCEPT !.calls = @ \o <<"mtd_num2ubi_dev">>],
                                  si, mean)

\* The locals at the entry of a Format call.
FormatEntry ==
    [IdleFmt EXCEPT !.run = fmt.run + 1,
                    !.prev = IF fmt.cause \in MarkBadBlocksErrors
                             THEN [code |-> fmt.code, cause |-> fmt.cause]
                             ELSE NoPrev]

\* UbiDevice::Format(mtd_num) up to the call of FormatExec.
Format ==
    /\ mode = "format"
    /\ fmt.pc = "idle"
    /\ fmt.run < MaxRuns
    /\ UNCHANGED <<consecutive_bad_blocks, prev_bb>>
    /\ \E mtdopen \in LibOpens :
         IF mtdopen /= "ok"
         THEN FormatReturn(FormatEntry,
                 IF mtdopen = "absent"
                 THEN "OPEN_LIB_MTD__MTD_IS_NOT_PRESENT_IN_THE_SYSTEM"
                 ELSE "OPEN_LIB_MTD__CANNOT_OPEN_LIBMTD_ERROR",
                 "libmtd_open", <<"libmtd_open_failed">>)
         ELSE
         LET f0 == [FormatEntry EXCEPT !.calls = <<"libmtd_open">>,
                                   !.guards = <<"libmtd">>]
         IN
         \E info \in Answers, devinfo \in Answers :
           IF info = "fail"
           THEN FormatReturn(f0, "FORMAT__MTD_GET_INFO_FAILURE_ERROR",
                             "FORMAT__MTD_GET_INFO_FAILURE_ERROR",
                             <<"mtd_get_info">>)
           ELSE IF devinfo = "fail"
           THEN FormatReturn(f0, "FORMAT__MTD_GET_DEV_INFO_FAILURE_ERROR",
                             "FORMAT__MTD_GET_DEV_INFO_FAILURE_ERROR",
                             <<"mtd_get_info", "mtd_get_dev_info">>)
           ELSE
           \E min_io_size \in MinIoSizes, bb_allowed \in BOOLEAN,
              fdopen \in Answers :
             LET f1 == [f0 EXCEPT
                          !.calls = @ \o <<"mtd_get_info", "mtd_get_dev_info">>,
                          !.min_io_size = min_io_size,
                          !.bb_allowed = bb_allowed]
             IN
             IF ~is_power_of_2(min_io_size)
             THEN FormatReturn(f1, "FORMAT__MIN_IO_SIZE_NOT_POWER_OF_2_ERROR",
                               "FORMAT__MIN_IO_SIZE_NOT_POWER_OF_2_ERROR", <<>>)
             ELSE IF fdopen = "fail"
             THEN FormatReturn(f1, "CANNOT_OPEN_MTD_DEVICE_FILE_ERROR",
                               "CANNOT_OPEN_MTD_DEVICE_FILE_ERROR",
                               <<"open_failed">>)
             ELSE FormatOpened([f1 EXCEPT !.calls = @ \o <<"open">>,
                                          !.guards = @ \o <<"fd">>])

\* The body of UbiDevice::ConsecutiveBadBlocksCheck(eb) on the values
\* count and prev of the two statics.
ConsecutiveBadBlocksCheckOn(eb, count, prev_eb) ==
    LET prev == IF prev_eb = -1 THEN eb ELSE prev_eb
        run == IF eb = prev + 1 THEN count + 1 ELSE 1
    IN  [code |-> IF run >= kMaxConsecutiveBadBlocks
                  THEN "FORMAT__CONSECUTIVE_BAD_BLOCKS_EXCEED_LIMIT_ERROR"
                  ELSE OK,
         consecutive_bad_blocks |-> run,
         prev_bb |-> eb]

\* UbiDevice::ConsecutiveBadBlocksCheck(eb) on the two statics.
ConsecutiveBadBlocksCheck(eb) ==
    ConsecutiveBadBlocksCheckOn(eb, consecutive_bad_blocks, prev_bb)

\* UbiDevice::MarkBadBlocks(mtd, si, eb, fd) called from FormatExec in the
\* state f of the locals, after the native calls in calls on block eb;
\* mark is the answer of mtd_mark_bad.  FormatExec returns
\* FORMAT__MARK_BAD_FAILED_ERROR for every error of MarkBadBlocks, and goes
\* on to the next block otherwise.
MarkBadBlocks(f, calls, mark) ==
    LET eb == f.eb
        chk == ConsecutiveBadBlocksCheck(eb)
        g == [f EXCEPT !.ops[eb] = @ \o calls]
        m == [f EXCEPT !.ops[eb] = @ \o calls \o <<"mtd_mark_bad">>]
        n == [m EXCEPT !.bad_cnt = @ + 1, !.ec[eb] = EB_BAD,
                       !.marked = Append(@, eb)]
    IN  IF ~f.bb_allowed
        THEN /\ FormatReturn(g, "FORMAT__MARK_BAD_FAILED_ERROR",
                    "FORMAT__BAD_BLOCK_NOT_SUPPORTED_BY_THIS_FLASH_ERROR",
                    calls)
             /\ UNCHANGED <<consecutive_bad_blocks, prev_bb>>
        ELSE IF mark = "fail"
        THEN /\ FormatReturn(m, "FORMAT__MARK_BAD_FAILED_ERROR",
                    "FORMAT__MTD_MARK_BAD_FAILED_ERROR",
                    calls \o <<"mtd_mark_bad">>)
             /\ UNCHANGED <<consecutive_bad_blocks, prev_bb>>
        ELSE /\ consecutive_bad_blocks' = chk.consecutive_bad_blocks
             /\ prev_bb' = chk.prev_bb
             /\ IF chk.code /= OK
                THEN FormatReturn(n, "FORMAT__MARK_BAD_FAILED_ERROR", chk.code,
                                  calls \o <<"mtd_mark_bad">>)
                ELSE /\ fmt' = [n EXCEPT !.eb = @ + 1,
                                   !.calls = @ \o calls \o <<"mtd_mark_bad">>]
                     /\ UNCHANGED <<mode, srv, handles, ubi, attachments, last,
                                    upd, errno>>

\* The erase counter FormatExec computes for block eb.
BlockEc(f) ==
    IF f.override_ec /= 0 THEN f.format_ec
    ELSE IF f.ec[f.eb].kind = "ec" THEN f.ec[f.eb].ec + 1
    ELSE f.mean_ec

\* The loop of FormatExec goes on to the next block.
FormatContinue(f, calls) ==
    /\ fmt' = [f EXCEPT !.eb = @ + 1, !.calls = @ \o calls,
                        !.ops[f.eb] = @ \o calls]
    /\ UNCHANGED <<mode, srv, handles, ubi, attachments, last, upd, errno,
                   consecutive_bad_blocks, prev_bb>>

\* FormatExec returns from inside the loop without calling MarkBadBlocks.
FormatAbort(f, code, calls) ==
    /\ FormatReturn([f EXCEPT !.ops[f.eb] = @ \o calls], code, code, calls)
    /\ UNCHANGED <<consecutive_bad_blocks, prev_bb>>

ErrnoResults == {"ok", "eio", "err"}

\* if (si->ec[eb] == EB_BAD) continue;
NeverBad(entry) == FALSE

IsBadBlock(entry) == entry = EB_BAD

\* if (errno != EIO) after a failed mtd_erase
EraseNeverFatal(erase) == FALSE

EraseFatal(erase) == erase = "err"

\* The negation of if (eb1 == -1 || eb2 == -1) inside the loop: both blocks
\* of the volume table are reserved.
VtblReservedFirst(eb1, eb2) == eb1 /= -1

VtblReserved(eb1, eb2) == eb1 /= -1 /\ eb2 /= -1

\* if (errno != EIO) if (format_attr.subpage_size != mtd->min_io_size)
\* after a failed mtd_write
WriteFatalOnAnyError(write, subpage_size, min_io_size) == write /= "ok"

WriteFatal(write, subpage_size, min_io_size) ==
    write = "err" /\ subpage_size /= min_io_size

\* if (ret) after mtd_torture
TortureNeverFailed(torture) == FALSE

TortureFailed(torture) == torture = "fail"

\* if (eb1 == -1 || eb2 == -1) after the loop
NoFirstVtblBlock(eb1, eb2) == eb1 = -1

NoVtblBlocks(eb1, eb2) == eb1 = -1 \/ eb2 = -1

\* One iteration of the loop of FormatExec, on block fmt.eb.
\* format_attr.subpage_size is never assigned: it is 0.
FormatExecBlock ==
    /\ mode = "format"
    /\ fmt.pc = "loop"
    /\ fmt.eb < EbCnt
    /\ IF IsBadBlock(fmt.ec[fmt.eb])
       THEN FormatContinue(fmt, <<>>)
       ELSE
       \E erase \in ErrnoResults, mark \in Answers :
         LET e == [fmt EXCEPT !.res[fmt.eb] =
                      [NoRes EXCEPT !.erase = erase, !.ec = BlockEc(fmt)]]
         IN
         IF erase /= "ok" /\ EraseFatal(erase)
         THEN FormatAbort(e, "FORMAT__FAILED_TO_ERASE_ERASEBLOCK_ERROR",
                          <<"mtd_erase">>)
         ELSE IF erase /= "ok"
         THEN MarkBadBlocks(e, <<"mtd_erase">>, mark)
         ELSE IF ~VtblReserved(fmt.eb1, fmt.eb2)
         THEN IF fmt.eb1 = -1
              THEN FormatContinue([e EXCEPT !.eb1 = fmt.eb,
                                            !.ec1 = BlockEc(fmt)],
                                  <<"mtd_erase">>)
              ELSE FormatContinue([e EXCEPT !.eb2 = fmt.eb,
                                            !.ec2 = BlockEc(fmt)],
                                  <<"mtd_erase">>)
         ELSE
         \E write \in ErrnoResults, torture \in Answers :
           LET w == [e EXCEPT !.res[fmt.eb].write = write]
               t == [w EXCEPT !.res[fmt.eb].torture = torture]
           IN
           IF write = "ok"
           THEN FormatContinue(w, <<"mtd_erase", "mtd_write">>)
           ELSE IF WriteFatal(write, 0, fmt.min_io_size)
           THEN FormatAbort(w, "FORMAT__CANNOT_WRITE_EC_HEADER",
                            <<"mtd_erase", "mtd_write">>)
           ELSE IF ~TortureFailed(torture)
           THEN FormatContinue(t, <<"mtd_erase", "mtd_write", "mtd_torture">>)
           ELSE MarkBadBlocks(t, <<"mtd_erase", "mtd_write", "mtd_torture">>,
                              mark)

\* FormatExec after the loop: the volume table and the layout volume.
FormatExecEnd ==
    /\ mode = "format"
    /\ fmt.pc = "loop"
    /\ fmt.eb = EbCnt
    /\ UNCHANGED <<consecutive_bad_blocks, prev_bb>>
    /\ IF NoVtblBlocks(fmt.eb1, fmt.eb2)
       THEN FormatReturn(fmt, "FORMAT__NO_ERASEBLOCKS_FOR_VOLUME_TABLE_ERROR",
                         "FORMAT__NO_ERASEBLOCKS_FOR_VOLUME_TABLE_ERROR", <<>>)
       ELSE \E vtbl \in Answers, layout \in Answers :
              LET l == [fmt EXCEPT !.layout =
                           [eb1 |-> fmt.eb1, eb2 |-> fmt.eb2,
                            ec1 |-> fmt.ec1, ec2 |-> fmt.ec2, n |-> 1]]
              IN
              IF vtbl = "fail"
              THEN FormatReturn(fmt, "FORMAT__UBIGEN_CREATE_EMPTY_VTBL_ERROR",
                                "FORMAT__UBIGEN_CREATE_EMPTY_VTBL_ERROR",
                                <<"ubigen_create_empty_vtbl">>)
              ELSE IF layout = "fail"
              THEN FormatReturn(l, "FORMAT__CANNOT_WRITE_LAYOUT_VOLUME",
                                "FORMAT__CANNOT_WRITE_LAYOUT_VOLUME",
                                <<"ubigen_create_empty_vtbl",
                                  "ubigen_write_layout_vol">>)
              ELSE FormatReturn(l, OK, OK, <<"ubigen_create_empty_vtbl",
                                             "ubigen_write_layout_vol">>)

NextFormat ==
    \/ Format
    \/ FormatExecBlock
    \/ FormatExecEnd

SpecFormat == InitFormat /\ [][NextFormat]_vars

(***************************************************************************)
(* Two Format calls on two partitions, running at the same time in one     *)
(* process.  Each run is its loop over the blocks of its own partition:    *)
(* a block is skipped or formatted, or its erase fails with EIO and        *)
(* MarkBadBlocks marks it and calls ConsecutiveBadBlocksCheck.  The two    *)
(* statics of the check are one pair for the process.  Each run carries    *)
(* the pair a run on its own would have, for comparison.                   *)
(*   pc      "loop", or "done" with code the result                        *)
(*   eb      the block the run is at                                       *)
(*   alone   consecutive_bad_blocks and prev_bb of a run on its own (ghost)*)
(*   dec, alone_dec   the result of the run's latest check, and what it    *)
(*           is on the run's own pair (ghost)                              *)
(***************************************************************************)
FormatRuns == {1, 2}

FreshStatics == [consecutive_bad_blocks |-> 1, prev_bb |-> -1]

InitFormat2 ==
    /\ mode = "format2"
    /\ srv = Unused
    /\ InitHandles
    /\ fmt = [r \in FormatRuns |->
                [pc |-> "loop", code |-> "RUNNING", eb |-> 0,
                 alone |-> FreshStatics, dec |-> "none",
                 alone_dec |-> "none", marks |-> 0]]
    /\ consecutive_bad_blocks = FreshStatics.consecutive_bad_blocks
    /\ prev_bb = FreshStatics.prev_bb
    /\ upd = Unused /\ errno = "ENONE"

\* Run r goes on to its next block, or returns OK after the last one.
Format2Continue(r, f) ==
    fmt' = [fmt EXCEPT ![r] =
               IF f.eb + 1 = EbCnt
               THEN [f EXCEPT !.eb = @ + 1, !.pc = "done", !.code = OK]
               ELSE [f EXCEPT !.eb = @ + 1]]

\* One iteration of the loop of FormatExec in run r: the block is good, or
\* it is marked bad and the check decides.
Format2Block(r) ==
    /\ mode = "format2"
    /\ fmt[r].pc = "loop"
    /\ UNCHANGED <<mode, srv, handles, ubi, attachments, last, upd, errno>>
    /\ \E bad \in BOOLEAN :
         IF ~bad
         THEN /\ Format2Continue(r, fmt[r])
              /\ UNCHANGED <<consecutive_bad_blocks, prev_bb>>
         ELSE
         LET eb == fmt[r].eb
             chk == ConsecutiveBadBlocksCheck(eb)
             own == ConsecutiveBadBlocksCheckOn(eb,
                        fmt[r].alone.consecutive_bad_blocks,
                        fmt[r].alone.prev_bb)
             f == [fmt[r] EXCEPT
                     !.alone = [consecutive_bad_blocks |->
                                   own.consecutive_bad_blocks,
                                prev_bb |-> own.prev_bb],
                     !.dec = chk.code, !.alone_dec = own.code,
                     !.marks = @ + 1]
         IN  /\ consecutive_bad_blocks' = chk.consecutive_bad_blocks
             /\ prev_bb' = chk.prev_bb
             /\ IF chk.code /= OK
                THEN fmt' = [fmt EXCEPT ![r] =
                               [f EXCEPT !.pc = "done",
                                  !.code = "FORMAT__MARK_BAD_FAILED_ERROR"]]
                ELSE Format2Continue(r, f)

NextFormat2 == \E r \in FormatRuns : Format2Block(r)

SpecFormat2 == InitFormat2 /\ [][NextFormat2]_vars

(***************************************************************************)
(* UpdateVolume and UbiWrite.  The image file is its offsets 0..size-1;    *)
(* the volume records the image offsets of the bytes it has accepted.      *)
(* errno is set by a failing native call and left alone by a succeeding    *)
(* one.  Nothing but errno passes from one UpdateVolume call to the next:  *)
(* a behaviour is one call, entered with any errno earlier calls can have  *)
(* left.                                                                   *)
(***************************************************************************)
MaxFile == 3
MaxLeb == 2
MaxIntr == 1

Errnos == {"ENONE", "EINTR", "EIO"}

FileSizes == 0..MaxFile
SkipBytes == 0..(MaxFile - 1)
Sizes == 0..MaxFile
LebSizes == 1..MaxLeb
RsvdBytes == 1..MaxFile

\* The handle UpdateVolume is called on: never attached, or attached to
\* ubi device 0.
AttachedHandle ==
    [Constructed(0) EXCEPT !.is_attached_ = TRUE, !.attach_ok = TRUE,
                           !.ubi_device_file_name_ = 0]

\* The locals of UpdateVolume and UbiWrite.
\*   pc        "idle": before the call (code "NONE") or after it; "read":
\*             at the head of while (bytes); "write": at the head of
\*             while (size) in UbiWrite
\*   bytes     the bytes still to transfer
\*   started, declared   ubi_update_start was called, with this length
\*   pos       the offset of the image descriptor
\*   buf       the image offsets read() put in the buffer
\*   woff, wsize   buf and size inside UbiWrite
\*   vol       the image offsets the volume accepted, in order (ghost)
\*   intr      the interrupted calls so far (ghost)
\*   short_rd, short_wr   a read, a write has returned fewer bytes than it
\*             was asked for (ghost)
\*   spin      the parity of the reads that returned nothing and were
\*             retried (ghost)
\*   wlast     the write() issued since the last read(), if any: its
\*             result (kind "intr": negative with EINTR, "err": negative
\*             with another errno, "zero", "pos": n bytes) and buf, size
\*             and the volume before it (ghost)
NoWrite == [kind |-> "none", n |-> 0, woff |-> 0, wsize |-> 0, vol |-> <<>>]

IdleUpd ==
    [pc |-> "idle", code |-> "NONE", calls |-> <<>>,
     guards |-> <<>>, was_attached |-> FALSE,
     skip_bytes |-> 0, size |-> 0, file_size |-> 0, leb_size |-> 0,
     rsvd_bytes |-> 0, bytes |-> 0, started |-> FALSE, declared |-> 0,
     pos |-> 0, buf |-> <<>>, woff |-> 0, wsize |-> 0, vol |-> <<>>,
     intr |-> 0, short_rd |-> FALSE, short_wr |-> FALSE, spin |-> 0,
     wlast |-> NoWrite]

InitUpdate ==
    /\ mode = "update"
    /\ srv = Unused
    /\ \/ /\ handles = [h \in HandleIds |->
                           IF h = 1 THEN Constructed(0) ELSE NoHandle]
          /\ ubi = [m \in Mtds |-> NoDev]
          /\ attachments = <<>>
       \/ /\ handles = [h \in HandleIds |->
                           IF h = 1 THEN AttachedHandle ELSE NoHandle]
          /\ ubi = [m \in Mtds |-> IF m = 0 THEN 0 ELSE NoDev]
          /\ attachments = <<[mtd |-> 0, detachReqs |-> 0]>>
    /\ last = NoOp
    /\ fmt = Unused /\ consecutive_bad_blocks = 1 /\ prev_bb = -1
    /\ upd = IdleUpd /\ errno \in Errnos

\* A return statement of UpdateVolume in the state u of the locals.
UpdateReturn(u, code, calls) ==
    upd' = [u EXCEPT !.pc = "idle", !.code = code,
                     !.calls = u.calls \o calls \o ScopeExit(u.guards),
                     !.guards = <<>>]

\* The length UpdateVolume computes: bytes = size, or st_size - skip_bytes.
UpdateLengthOfFile(size, file_size, skip_bytes) ==
    IF size > 0 THEN size ELSE file_size

UpdateLength(size, file_size, skip_bytes) ==
    IF size > 0 THEN size ELSE file_size - skip_bytes

Min(a, b) == IF a < b THEN a ELSE b

\* if (bytes > vol_info.rsvd_bytes): the image does not fit the volume.
FitsOneMore(bytes, rsvd_bytes) == bytes > rsvd_bytes + 1

NoSpace(bytes, rsvd_bytes) == bytes > rsvd_bytes

\* UpdateVolume from the opening of the two files to ubi_update_start; u
\* holds the length in bytes and the guard of libubi, c the native calls
\* since u.calls.
UpdateOpen(u, c) ==
    \E volopen \in Answers :
      IF volopen = "fail"
      THEN /\ UpdateReturn(u, "CANNOT_OPEN_MTD_DEVICE_FILE_ERROR",
                           c \o <<"open_failed">>)
           /\ errno' = "EIO"
      ELSE
      \E imgopen \in Answers :
        LET g1 == [u EXCEPT !.guards = @ \o <<"fd">>]
            g2 == [u EXCEPT !.guards = @ \o <<"fd", "fd">>]
            c1 == c \o <<"open">>
            c2 == c1 \o <<"open">>
            c3 == IF u.skip_bytes > 0 THEN c2 \o <<"lseek">> ELSE c2
            s == [g2 EXCEPT !.pos = u.skip_bytes, !.started = TRUE,
                            !.declared = u.bytes]
        IN
        IF imgopen = "fail"
        THEN /\ UpdateReturn(g1, "CANNOT_OPEN_MTD_DEVICE_FILE_ERROR",
                             c1 \o <<"open_failed">>)
             /\ errno' = "EIO"
        ELSE
        \E lseek \in IF u.skip_bytes > 0 THEN Answers ELSE {"ok"} :
          IF lseek = "fail"
          THEN /\ UpdateReturn(g2,
                     "UPDATE_VOL__LSEEK_ON_IMAGE_FD_FAILED_ERROR", c3)
               /\ errno' = "EIO"
          ELSE
          \E start \in Answers :
            IF start = "fail"
            THEN /\ UpdateReturn(s,
                       "UPDATE_VOL__CANNOT_CANNOT_START_VOLUME_ERROR",
                       c3 \o <<"ubi_update_start">>)
                 /\ errno' = "EIO"
            ELSE /\ errno' = errno
                 /\ IF u.bytes = 0
                    THEN UpdateReturn(s, OK, c3 \o <<"ubi_update_start">>)
                    ELSE upd' = [s EXCEPT
                                   !.pc = "read", !.code = "RUNNING",
                                   !.calls = @ \o c3 \o <<"ubi_update_start">>]

\* UpdateVolume from the length computation on; u holds the volume's
\* leb_size and rsvd_bytes.  stat() is called when size is 0.
UpdateStart(u) ==
    \E file_size \in FileSizes :
    \E stat \in IF u.size > 0 THEN {"ok"} ELSE Answers :
      LET c0 == IF u.size > 0 THEN <<>> ELSE <<"stat">>
          bytes == UpdateLength(u.size, file_size, u.skip_bytes)
          v == [u EXCEPT !.file_size = file_size, !.bytes = bytes]
      IN
      IF stat = "fail"
      THEN /\ UpdateReturn([u EXCEPT !.file_size = file_size],
                           "UPDATE_VOL__STAT_FAILED_ERROR", c0)
           /\ errno' = "EIO"
      ELSE IF NoSpace(bytes, u.rsvd_bytes)
      THEN UpdateReturn(v, "UPDATE_VOL__NO_SPACE_ERROR", c0) /\ errno' = errno
      ELSE UpdateOpen(v, c0)

\* UpdateVolume after libubi is open.
UpdateProbe(u) ==
    \E probe \in ProbeResults(handles[1]) :
      IF UbiProbeNode(probe) /= OK
      THEN /\ UpdateReturn(u, "UBI_PROBE_NODE_FAILED_ERROR",
                           <<"ubi_probe_node">>)
           /\ errno' = "EIO"
      ELSE
      \E devinfo \in Answers :
        IF devinfo = "fail"
        THEN /\ UpdateReturn(u,
                  "REMOVE_VOLUME__CANNOT_FIND_INFORMATION_ABOUT_UBI_DEVICE_ERROR",
                  <<"ubi_probe_node", "ubi_get_dev_info">>)
             /\ errno' = "EIO"
        ELSE
        \E volinfo \in Answers :
          IF volinfo = "fail"
          THEN /\ UpdateReturn(u, "CANNOT_FIND_UBI_VOLUME_ERROR",
                    <<"ubi_probe_node", "ubi_get_dev_info",
                      "ubi_get_vol_info1_nm">>)
               /\ errno' = "EIO"
          ELSE
          \E leb_size \in LebSizes, rsvd_bytes \in RsvdBytes :
            UpdateStart([u EXCEPT
                !.calls = @ \o <<"ubi_probe_node", "ubi_get_dev_info",
                                 "ubi_get_vol_info1_nm">>,
                !.leb_size = leb_size, !.rsvd_bytes = rsvd_bytes])

\* UbiDevice::UpdateVolume up to the transfer loop.
UpdateVolume ==
    /\ mode = "update"
    /\ upd.pc = "idle"
    /\ upd.code = "NONE"
    /\ handles[1].st = "live"
    /\ UNCHANGED <<mode, srv, handles, ubi, attachments, last, fmt,
                   consecutive_bad_blocks, prev_bb>>
    /\ \E skip_bytes \in SkipBytes, size \in Sizes :
         LET u0 == [IdleUpd EXCEPT !.was_attached = handles[1].is_attached_,
                              !.skip_bytes = skip_bytes, !.size = size]
         IN
         \E exists \in BOOLEAN :
           IF ~exists
           THEN /\ UpdateReturn(u0,
                      "UPDATE_VOL__UBIFS_IMAGE_FILE_NOT_EXIST_ERROR", <<>>)
                /\ errno' = "EIO"
           ELSE
           \E open \in LibOpens :
             LET lib == CreateUbiLibFileHandle(open)
                 u1 == [u0 EXCEPT !.calls = lib.calls, !.guards = lib.guards]
             IN  IF ~lib.ok
                 THEN /\ UpdateReturn(u1, lib.code, <<>>)
                      /\ errno' = IF open = "absent" THEN "ENONE" ELSE "EIO"
                 ELSE UpdateProbe(u1)

\* The image offsets from, from + 1, ..., from + n - 1.
Offsets(from, n) == [i \in 1..n |-> from + i - 1]

\* One pass through the head of while (bytes): a read() of the image.  A
\* read that returns nothing at the end of the file leaves errno as it was.
\* A negative to_copy is a huge size_t count, which the kernel rejects.
UpdateRead ==
    /\ mode = "update"
    /\ upd.pc = "read"
    /\ UNCHANGED <<mode, srv, handles, ubi, attachments, last, fmt,
                   consecutive_bad_blocks, prev_bb>>
    /\ LET to_copy == Min(upd.leb_size, upd.bytes)
           avail == upd.file_size - upd.pos
           r == [upd EXCEPT !.wlast = NoWrite]
       IN
       \/ /\ upd.intr < MaxIntr
          /\ errno' = "EINTR"
          /\ upd' = [r EXCEPT !.intr = @ + 1]
       \/ /\ errno' = "EIO"
          /\ UpdateReturn(r,
                "UPDATE_VOL__CANNOT_READ_FROM_UBIFS_IMAGE_FILE_ERROR", <<>>)
       \/ /\ to_copy > 0 /\ avail <= 0
          /\ errno' = errno
          /\ IF errno = "EINTR"
             THEN upd' = [r EXCEPT !.spin = 1 - @]
             ELSE UpdateReturn(r,
                    "UPDATE_VOL__CANNOT_READ_FROM_UBIFS_IMAGE_FILE_ERROR", <<>>)
       \/ /\ to_copy > 0 /\ avail > 0
          /\ errno' = errno
          /\ \E n \in 1..Min(to_copy, avail) :
                upd' = [r EXCEPT !.pc = "write",
                                 !.buf = Offsets(upd.pos, n),
                                 !.pos = @ + n, !.woff = 0, !.wsize = n,
                                 !.short_rd = @ \/ n < to_copy]

\* if (errno == EINTR) continue; in UbiWrite
WriteRetriedAlways(err) == TRUE

WriteRetried(err) == err = "EINTR"

\* buf += ret_size; in UbiWrite
BufStays(woff, ret_size) == woff

BufAdvance(woff, ret_size) == woff + ret_size

\* One pass through the head of while (size) in UbiWrite: a write() to the
\* volume, and what UpdateVolume does when UbiWrite returns.
UpdateWrite ==
    /\ mode = "update"
    /\ upd.pc = "write"
    /\ UNCHANGED <<mode, srv, handles, ubi, attachments, last, fmt,
                   consecutive_bad_blocks, prev_bb>>
    /\ LET Issued(kind, n) ==
               [upd EXCEPT !.wlast = [kind |-> kind, n |-> n,
                                      woff |-> upd.woff, wsize |-> upd.wsize,
                                      vol |-> upd.vol]]
       IN
       \/ \E err \in {"EINTR", "EIO"} :
            /\ IF err = "EINTR" THEN upd.intr < MaxIntr ELSE TRUE
            /\ errno' = err
            /\ IF WriteRetried(err)
               THEN upd' = [Issued(IF err = "EINTR" THEN "intr" ELSE "err", 0)
                               EXCEPT !.intr = IF err = "EINTR"
                                               THEN @ + 1 ELSE @]
               ELSE UpdateReturn(Issued("err", 0),
                                 "UPDATE_VOL__UBI_WRITE_FAILED_ERROR", <<>>)
       \/ /\ errno' = errno
          /\ UpdateReturn(Issued("zero", 0),
                          "UPDATE_VOL__UBI_WRITE_FAILED_ERROR", <<>>)
       \/ /\ errno' = errno
          /\ \E ret_size \in 1..upd.wsize :
                LET w == [Issued("pos", ret_size) EXCEPT
                            !.vol = @ \o SubSeq(upd.buf, upd.woff + 1,
                                                upd.woff + ret_size),
                            !.woff = BufAdvance(@, ret_size),
                            !.wsize = @ - ret_size,
                            !.short_wr = @ \/ ret_size < upd.wsize]
                    bytes == upd.bytes - Len(upd.buf)
                IN  IF w.wsize /= 0 THEN upd' = w
                    ELSE IF bytes /= 0
                    THEN upd' = [w EXCEPT !.pc = "read", !.bytes = bytes]
                    ELSE UpdateReturn([w EXCEPT !.bytes = bytes], OK, <<>>)

NextUpdate ==
    \/ UpdateVolume
    \/ UpdateRead
    \/ UpdateWrite

SpecUpdate == InitUpdate /\ [][NextUpdate]_vars

\* The thread that runs UpdateVolume keeps running: each step of the call
\* is taken when it can be.
SpecUpdateLive ==
    /\ SpecUpdate
    /\ WF_vars(UpdateVolume) /\ WF_vars(UpdateRead) /\ WF_vars(UpdateWrite)

(***************************************************************************)
(* UbiDeviceServer, the Thrift handler.  It holds one IUbiDevice, made by  *)
(* the factory in Init, and forwards every other request to it.  The       *)
(* device is seen through its interface: an operation returns a value or   *)
(* an int32 error.                                                         *)
(*   ubi_device_   NullDevice, or the device Init made: the partition name *)
(*                 and is_to_format_first it was made with                 *)
(*   op            the last request handled ("none": no request yet)       *)
(*   invoked       the factory or device operation that request called     *)
(*   result        what it returned: 0 a value, otherwise the error        *)
(*   thrown, error_code   the UbiDeviceServerException the request threw   *)
(*   released      the request released the device it held                 *)
(*   why           why no device is held (ghost)                           *)
(*   held_before   the request found a device held (ghost)                 *)
(*   steps         what the request did, in order: the release of the held *)
(*                 device ("~IUbiDevice"), the factory or device call      *)
(*                 (ghost)                                                 *)
(*   given         the integer arguments the request came with (ghost)     *)
(*   passed        the integer arguments the device's operation was        *)
(*                 called with (ghost)                                     *)
(***************************************************************************)
MaxErr == 3
MaxName == 1

MtdNames == 0..MaxName
NullDevice == [held |-> FALSE, name |-> 0, formatted |-> FALSE]

\* What a factory or device operation returns: 0 for folly::unit or the
\* created device, e > 0 for folly::makeUnexpected(e).
DeviceResults == 0..MaxErr

NoResult == -2

IdleServer ==
    [ubi_device_ |-> NullDevice, op |-> "none", invoked |-> "none",
     result |-> NoResult, thrown |-> FALSE, error_code |-> 0,
     released |-> FALSE, why |-> "never", held_before |-> FALSE,
     steps |-> <<>>, given |-> <<>>, passed |-> <<>>]

InitServer ==
    /\ mode = "server"
    /\ srv = IdleServer
    /\ InitHandles
    /\ fmt = Unused /\ consecutive_bad_blocks = 1 /\ prev_bb = -1
    /\ upd = Unused /\ errno = "ENONE"

\* An exception that carries the same code whatever the error.
UbiDeviceServerExceptionGeneric(error_code) ==
    [thrown |-> TRUE, error_code |-> -1]

\* The result of a handler that throws UbiDeviceServerException(error_code).

UbiDeviceServerException(error_code) ==
    [thrown |-> TRUE, error_code |-> error_code]

\* The result of a handler that returns.
Returned == [thrown |-> FALSE, error_code |-> 0]

\* if (ubi_device_)
AlwaysInitialized(s) == TRUE

Initialized(s) == s.ubi_device_.held

ServerUnchanged ==
    UNCHANGED <<mode, handles, ubi, attachments, last, fmt,
                consecutive_bad_blocks, prev_bb, upd, errno>>

\* ubi_device_.reset()
ResetKeeps(device) == device

Reset(device) == NullDevice

\* The steps of a release: the device's destructor runs when one was held
\* and is no longer.
Release(before, after) ==
    IF before.held /\ ~after.held THEN <<"~IUbiDevice">> ELSE <<>>

\* UbiDeviceServer::Init
UbiDeviceServer_Init ==
    /\ mode = "server"
    /\ ServerUnchanged
    /\ \E mtd_device_name \in MtdNames, is_to_format_first \in BOOLEAN,
          result \in DeviceResults :
         LET x == IF result /= 0 THEN UbiDeviceServerException(result)
                  ELSE Returned
             d == Reset(srv.ubi_device_)
             rel == Release(srv.ubi_device_, d)
         IN  srv' = [srv EXCEPT
                 !.ubi_device_ =
                     IF result /= 0 THEN d
                     ELSE [held |-> TRUE, name |-> mtd_device_name,
                           formatted |-> is_to_format_first],
                 !.op = "Init", !.invoked = "CreateUbiDevice",
                 !.result = result,
                 !.thrown = x.thrown, !.error_code = x.error_code,
                 !.released = rel /= <<>>,
                 !.why = IF result = 0 \/ d.held THEN "held"
                         ELSE "init_failed",
                 !.held_before = srv.ubi_device_.held,
                 !.steps = rel \o <<"CreateUbiDevice">>,
                 !.given = <<>>, !.passed = <<>>]

\* UbiDeviceServer::Destroy
UbiDeviceServer_Destroy ==
    /\ mode = "server"
    /\ ServerUnchanged
    /\ srv' = [srv EXCEPT
            !.ubi_device_ = NullDevice,
            !.op = "Destroy", !.invoked = "none", !.result = NoResult,
            !.thrown = FALSE, !.error_code = 0,
            !.released = srv.ubi_device_.held,
            !.why = IF srv.ubi_device_.held THEN "destroyed" ELSE @,
            !.held_before = srv.ubi_device_.held,
            !.steps = Release(srv.ubi_device_, NullDevice),
            !.given = <<>>, !.passed = <<>>]

\* The width of the uint32_t parameters of the device's operations,
\* scaled down; the int64_t arguments of the handlers range beyond it on
\* both sides.
ArgBits == 2

CallerValues == -1..(2 ^ ArgBits + 1)

\* An int64_t argument passed to a uint32_t parameter.
ToUint32(v) == v % (2 ^ ArgBits)

\* The handlers that forward a request to ubi_device_: given are the
\* integer arguments of the handler, passed the values the parameters of
\* the device's operation take.
ForwardWith(op, given, passed) ==
    /\ mode = "server"
    /\ ServerUnchanged
    /\ IF Initialized(srv)
       THEN \E result \in DeviceResults :
              LET x == IF result /= 0 THEN UbiDeviceServerException(result)
                       ELSE Returned
              IN  srv' = [srv EXCEPT
                      !.op = op, !.invoked = op, !.result = result,
                      !.thrown = x.thrown, !.error_code = x.error_code,
                      !.released = FALSE, !.held_before = TRUE,
                      !.steps = <<op>>,
                      !.given = given, !.passed = passed]
       ELSE LET x == UbiDeviceServerException(-1)
            IN  srv' = [srv EXCEPT
                    !.op = op, !.invoked = "none", !.result = NoResult,
                    !.thrown = x.thrown, !.error_code = x.error_code,
                    !.released = FALSE, !.held_before = FALSE,
                    !.steps = <<>>,
                    !.given = given, !.passed = <<>>]

Forward(op) == ForwardWith(op, <<>>, <<>>)

UbiDeviceServer_MountVolume == Forward("MountVolume")

UbiDeviceServer_UnmountVolume == Forward("UnmountVolume")

UbiDeviceServer_MakeVolume ==
    \E size_in_bytes \in CallerValues :
        ForwardWith("MakeVolume", <<size_in_bytes>>,
                    <<ToUint32(size_in_bytes)>>)

UbiDeviceServer_RemoveVolume == Forward("RemoveVolume")

UbiDeviceServer_UpdateVolume ==
    \E skip_bytes \in CallerValues, size \in CallerValues :
        ForwardWith("UpdateVolume", <<skip_bytes, size>>,
                    <<ToUint32(skip_bytes), ToUint32(size)>>)

UbiDeviceServer_Format == Forward("Format")

UbiDeviceServer_Attach == Forward("Attach")

UbiDeviceServer_Detach == Forward("Detach")

NextServer ==
    \/ UbiDeviceServer_Init
    \/ UbiDeviceServer_Destroy
    \/ UbiDeviceServer_MountVolume
    \/ UbiDeviceServer_UnmountVolume
    \/ UbiDeviceServer_MakeVolume
    \/ UbiDeviceServer_RemoveVolume
    \/ UbiDeviceServer_UpdateVolume
    \/ UbiDeviceServer_Format
    \/ UbiDeviceServer_Attach
    \/ UbiDeviceServer_Detach

SpecServer == InitServer /\ [][NextServer]_vars

(***************************************************************************)
(* Concurrent requests to the facade.  The Thrift server hands each        *)
(* request to a worker thread, and the handlers of UbiDeviceServer take no *)
(* lock: a handler is a sequence of steps on the shared member             *)
(* ubi_device_, and the steps of two workers interleave.                   *)
(*   srv.ubi_device_   the device the member points to, 0 for none; a      *)
(*                     device is destroyed and detached when the member    *)
(*                     lets go of it, the member being its only owner      *)
(*   srv.created       the devices created so far; they are numbered       *)
(*   srv.thr[t]        worker t: its position in the handler, the request  *)
(*                     it serves, the device whose operation it is in,     *)
(*                     and what it threw last                              *)
(***************************************************************************)
MaxDevices == 2

Workers == {1, 2}

RpcOps == {"Init", "Destroy", "MakeVolume"}

IdleWorker ==
    [pc |-> "idle", op |-> "none", device |-> 0, thrown |-> FALSE,
     error_code |-> 0]

InitRpc ==
    /\ mode = "rpc"
    /\ srv = [ubi_device_ |-> 0, created |-> 0,
              thr |-> [t \in Workers |-> IdleWorker]]
    /\ InitHandles
    /\ fmt = Unused /\ consecutive_bad_blocks = 1 /\ prev_bb = -1
    /\ upd = Unused /\ errno = "ENONE"

\* The Init requests that have not called the factory yet.
PendingInits ==
    Cardinality({t \in Workers : srv.thr[t].op = "Init"
                                 /\ srv.thr[t].pc /= "idle"})

\* A worker thread picks up a request.
RpcReceive(t) ==
    /\ mode = "rpc"
    /\ srv.thr[t].pc = "idle"
    /\ ServerUnchanged
    /\ \E op \in RpcOps :
         /\ op = "Init" => srv.created + PendingInits < MaxDevices
         /\ srv' = [srv EXCEPT !.thr[t] =
                        [IdleWorker EXCEPT !.pc = "entered", !.op = op]]

\* UbiDeviceServer::Init, ubi_device_.reset()
RpcInitReset(t) ==
    /\ mode = "rpc"
    /\ srv.thr[t].pc = "entered" /\ srv.thr[t].op = "Init"
    /\ ServerUnchanged
    /\ srv' = [srv EXCEPT !.ubi_device_ = 0, !.thr[t].pc = "create"]

\* UbiDeviceServer::Init, from the call of the factory to the end
RpcInitCreate(t) ==
    /\ mode = "rpc"
    /\ srv.thr[t].pc = "create"
    /\ ServerUnchanged
    /\ \E result \in DeviceResults :
         LET x == IF result /= 0 THEN UbiDeviceServerException(result)
                  ELSE Returned
         IN  srv' = [srv EXCEPT
                 !.ubi_device_ = IF result /= 0 THEN @ ELSE srv.created + 1,
                 !.created = IF result /= 0 THEN @ ELSE @ + 1,
                 !.thr[t].pc = "idle",
                 !.thr[t].thrown = x.thrown,
                 !.thr[t].error_code = x.error_code]

\* UbiDeviceServer::Destroy
RpcDestroy(t) ==
    /\ mode = "rpc"
    /\ srv.thr[t].pc = "entered" /\ srv.thr[t].op = "Destroy"
    /\ ServerUnchanged
    /\ srv' = [srv EXCEPT !.ubi_device_ = 0, !.thr[t].pc = "idle"]

\* UbiDeviceServer::MakeVolume, if (ubi_device_) and the entry into the
\* device's operation through the member
RpcGuard(t) ==
    /\ mode = "rpc"
    /\ srv.thr[t].pc = "entered" /\ srv.thr[t].op = "MakeVolume"
    /\ ServerUnchanged
    /\ IF srv.ubi_device_ /= 0
       THEN srv' = [srv EXCEPT !.thr[t].pc = "in_device",
                               !.thr[t].device = srv.ubi_device_]
       ELSE LET x == UbiDeviceServerException(-1)
            IN  srv' = [srv EXCEPT !.thr[t].pc = "idle",
                                   !.thr[t].thrown = x.thrown,
                                   !.thr[t].error_code = x.error_code]

\* UbiDeviceServer::MakeVolume, the device's operation returns
RpcReturn(t) ==
    /\ mode = "rpc"
    /\ srv.thr[t].pc = "in_device"
    /\ ServerUnchanged
    /\ \E result \in DeviceResults :
         LET x == IF result /= 0 THEN UbiDeviceServerException(result)
                  ELSE Returned
         IN  srv' = [srv EXCEPT !.thr[t].pc = "idle",
                                !.thr[t].thrown = x.thrown,
                                !.thr[t].error_code = x.error_code]

NextRpc ==
    \E t \in Workers :
        \/ RpcReceive(t)
        \/ RpcInitReset(t)
        \/ RpcInitCreate(t)
        \/ RpcDestroy(t)
        \/ RpcGuard(t)
        \/ RpcReturn(t)

SpecRpc == InitRpc /\ [][NextRpc]_vars

(***************************************************************************)
(* The whole model: one of the machines, chosen by the initial state.      *)
(***************************************************************************)
Init == InitVol \/ InitFormat \/ InitUpdate \/ InitServer

Next == NextVol \/ NextFormat \/ NextUpdate \/ NextServer

Spec == Init /\ [][Next]_vars

(***************************************************************************)
(* Reading the call sequence of an operation.                              *)
(***************************************************************************)
Has(calls, e) == \E i \in 1..Len(calls) : calls[i] = e

RECURSIVE Count(_, _)
Count(calls, e) ==
    IF calls = <<>> THEN 0
    ELSE (IF Head(calls) = e THEN 1 ELSE 0) + Count(Tail(calls), e)

GuardKinds == {"libubi", "libmtd", "fd"}

OpenEvent(kind) ==
    IF kind = "libubi" THEN "libubi_open"
    ELSE IF kind = "libmtd" THEN "libmtd_open"
    ELSE "open"

\* Every native handle opened in calls is closed once, after its opening,
\* and none is closed that was not opened.
Balanced(calls) ==
    \A kind \in GuardKinds :
        /\ Count(calls, OpenEvent(kind)) = Count(calls, CloseEvent(kind))
        /\ \A k \in 0..Len(calls) :
              Count(SubSeq(calls, 1, k), CloseEvent(kind))
                  <= Count(SubSeq(calls, 1, k), OpenEvent(kind))

AllDestroyed == \A id \in HandleIds : handles[id].st /= "live"

(***************************************************************************)
(* Properties of the handle's life cycle.                                  *)
(***************************************************************************)

\* C2: after Detach() returns success the handle's attached flag is false,
\* so that a later destruction issues no further detach request.
C2_DetachSuccessClearsFlag ==
    (last.op = "Detach" /\ last.code = OK)
        => ~handles[last.h].is_attached_

\* C3: over construction, move construction, move assignment (onto an
\* attached handle too), Detach() and destruction, every successful attach
\* has received exactly one detach request, never none and never two, once
\* all handles are destroyed.
C3_OneDetachPerAttach ==
    AllDestroyed =>
        \A i \in 1..Len(attachments) : attachments[i].detachReqs = 1

NativeFree(calls) == calls = <<>>

\* C1: on a handle that is not attached, MakeVolume, RemoveVolume,
\* UpdateVolume and MountVolume fail with the not-attached code and issue
\* no native call.
C1_UnattachedRejectedWithoutNativeCall ==
    /\ (last.op \in {"MakeVolume", "RemoveVolume", "MountVolume"}
          /\ ~last.was_attached)
         => (last.code = "NOT_ATTACHED" /\ NativeFree(last.calls))
    /\ (mode = "update" /\ upd.code /= "NONE" /\ upd.pc = "idle"
          /\ ~upd.was_attached)
         => (upd.code = "NOT_ATTACHED" /\ NativeFree(upd.calls))

(***************************************************************************)
(* Properties of the native handles.                                       *)
(***************************************************************************)
Held(calls, kind) ==
    Count(calls, OpenEvent(kind)) - Count(calls, CloseEvent(kind))

InGuards(guards, kind) ==
    Cardinality({i \in 1..Len(guards) : guards[i] = kind})

\* C6: every native handle (libubi, libmtd, file descriptor) opened inside
\* Attach, Detach, Format, MakeVolume, RemoveVolume, UpdateVolume or
\* GetUbiVolumeFile is closed exactly once by the time the operation
\* returns, on every exit path; while Format or UpdateVolume runs, the open
\* handles are exactly those its guards hold.
C6_NativeHandlesReleasedOnce ==
    /\ last.op \in {"Attach", "Detach", "MakeVolume", "RemoveVolume",
                    "GetUbiVolumeFile"}
         => Balanced(last.calls)
    /\ mode = "format" =>
         /\ \A kind \in GuardKinds :
               Held(fmt.calls, kind) = InGuards(fmt.guards, kind)
         /\ fmt.pc = "idle" => Balanced(fmt.calls)
    /\ mode = "update" =>
         /\ \A kind \in GuardKinds :
               Held(upd.calls, kind) = InGuards(upd.guards, kind)
         /\ upd.pc = "idle" => Balanced(upd.calls)

\* C6 happens: Format returns early, on a failed scan, with its three
\* handles open, and closes each of them.
C6_Witness ==
    /\ mode = "format" /\ fmt.pc = "idle"
    /\ fmt.code = "FORMAT__UBI_SCAN_FAILURE_ERROR"
    /\ Count(fmt.calls, "libmtd_open") = 1
    /\ Count(fmt.calls, "open") = 1
    /\ Count(fmt.calls, "libubi_open") = 1
    /\ Count(fmt.calls, "libmtd_close") = 1
    /\ Count(fmt.calls, "close") = 1
    /\ Count(fmt.calls, "libubi_close") = 1

(***************************************************************************)
(* Properties of Format.                                                   *)
(***************************************************************************)
GuardTripped ==
    /\ fmt.pc = "idle"
    /\ fmt.cause = "FORMAT__CONSECUTIVE_BAD_BLOCKS_EXCEED_LIMIT_ERROR"

\* The last k entries of marked are k consecutive indices.
RunOf(marked, k) ==
    /\ Len(marked) >= k
    /\ \A i \in 1..(k - 1) :
          marked[Len(marked) - i] = marked[Len(marked)] - i

\* The length of the run of consecutive indices that ends marked.
RunLength(marked) ==
    CHOOSE k \in 1..Len(marked) :
        /\ RunOf(marked, k)
        /\ ~RunOf(marked, k + 1)

\* C4: in a Format run the guard aborts exactly when the block just marked
\* bad is the 4th of four blocks with consecutive indices marked one after
\* the other in that run, and never otherwise.
C4_GuardAbortsAtFourthConsecutive ==
    mode = "format" =>
        /\ GuardTripped => RunOf(fmt.marked, kMaxConsecutiveBadBlocks)
        /\ RunOf(fmt.marked, kMaxConsecutiveBadBlocks) => GuardTripped

\* C5: the guard's run length and previous bad block belong to one Format
\* run: they are fresh when a run starts, and the run length counts only
\* blocks marked in the run itself.
C5_GuardStateFreshPerRun ==
    mode = "format" =>
        /\ (fmt.pc = "loop" /\ fmt.marked = <<>>)
              => (consecutive_bad_blocks = 1 /\ prev_bb = -1)
        /\ (fmt.run > 0 /\ fmt.marked /= <<>>)
              => consecutive_bad_blocks = RunLength(fmt.marked)

NonBadBlocks(scan) == Cardinality({eb \in Ebs : scan[eb].kind /= "EB_BAD"})

Untouched(calls) ==
    /\ ~Has(calls, "mtd_erase") /\ ~Has(calls, "mtd_write")
    /\ ~Has(calls, "mtd_torture") /\ ~Has(calls, "mtd_mark_bad")
    /\ ~Has(calls, "ubigen_write_layout_vol")

\* C8 as stated: a scan that reports 0 or 1 good blocks makes Format fail
\* with the too-few-good-blocks code, without erase, header write, mark or
\* layout write.
C8_TooFewCodeForZeroOrOne ==
    (mode = "format" /\ fmt.scanned /\ NonBadBlocks(fmt.scan) < 2) =>
        /\ fmt.pc = "idle"
        /\ fmt.code = "FORMAT__TOO_FEW_NON_BAD_ERASE_BLOCKS_AFTER_SCAN_ERROR"
        /\ Untouched(fmt.calls)

\* C8 amended: a scan that reports no good block makes Format fail with the
\* all-blocks-bad code, one that reports exactly one good block with the
\* too-few-good-blocks code; in both cases without erase, header write,
\* mark or layout write.
C8_FewGoodBlocksRejected ==
    (mode = "format" /\ fmt.scanned /\ NonBadBlocks(fmt.scan) < 2) =>
        /\ fmt.pc = "idle"
        /\ fmt.code = IF NonBadBlocks(fmt.scan) = 0
                      THEN "FORMAT__BAD_ERASEBLOCKS_AFTER_SCAN_ERROR"
                      ELSE "FORMAT__TOO_FEW_NON_BAD_ERASE_BLOCKS_AFTER_SCAN_ERROR"
        /\ Untouched(fmt.calls)

\* C8 happens: the scan reports exactly one good block.
C8_Witness ==
    /\ mode = "format" /\ fmt.scanned /\ NonBadBlocks(fmt.scan) = 1
    /\ fmt.code = "FORMAT__TOO_FEW_NON_BAD_ERASE_BLOCKS_AFTER_SCAN_ERROR"
    /\ Has(fmt.calls, "ubi_scan")

PowersOfTwo == {1, 2, 4, 8, 16}

\* C9: when the partition's minimum I/O size is not a power of two, Format
\* fails with the not-power-of-two code before the device node is opened,
\* hence before any scan, erase or write.
C9_NotPowerOfTwoRejectedBeforeOpen ==
    (mode = "format" /\ fmt.run > 0 /\ fmt.min_io_size /= -1
        /\ fmt.min_io_size \notin PowersOfTwo) =>
        /\ fmt.pc = "idle"
        /\ fmt.code = "FORMAT__MIN_IO_SIZE_NOT_POWER_OF_2_ERROR"
        /\ ~Has(fmt.calls, "open") /\ ~Has(fmt.calls, "open_failed")
        /\ ~Has(fmt.calls, "ubi_scan") /\ ~fmt.scanned
        /\ Untouched(fmt.calls)

\* C9 happens: a partition with minimum I/O size 3 is rejected.
C9_Witness ==
    /\ mode = "format" /\ fmt.pc = "idle" /\ fmt.min_io_size = 3
    /\ fmt.code = "FORMAT__MIN_IO_SIZE_NOT_POWER_OF_2_ERROR"
    /\ Has(fmt.calls, "mtd_get_dev_info")

(***************************************************************************)
(* Properties of UpdateVolume.                                             *)
(***************************************************************************)

\* C10: the length UpdateVolume declares to ubi_update_start is size when
\* size is not 0 and the file size minus skip_bytes when size is 0; the
\* volume never accepts more than the declared length, and accepts exactly
\* that many bytes when UpdateVolume returns success.
C10_DeclaredAndTransferredLength ==
    (mode = "update" /\ upd.started) =>
        /\ upd.declared = IF upd.size /= 0 THEN upd.size
                          ELSE upd.file_size - upd.skip_bytes
        /\ Len(upd.vol) <= upd.declared \/ upd.declared < 0
        /\ (upd.pc = "idle" /\ upd.code = OK) => Len(upd.vol) = upd.declared

\* C10 happens: with size 0 and a positive skip_bytes an update of more
\* than one chunk succeeds.
C10_Witness ==
    /\ mode = "update" /\ upd.pc = "idle" /\ upd.code = OK
    /\ upd.size = 0 /\ upd.skip_bytes > 0
    /\ upd.declared = upd.file_size - upd.skip_bytes
    /\ Len(upd.vol) = upd.declared /\ upd.declared > upd.leb_size

C12_MakeVolumeRequestSize ==
    (last.op = "MakeVolume" /\ last.avail /= -1) =>
       /\ last.avail = 0 =>
             /\ last.code =
                  "MAKE_VOLUME__UBI_DEVICE_NOT_ENOUGH_FREE_LOGICAL_ERASEBLOCKS_ERROR"
             /\ last.bytes = -1
             /\ ~Has(last.calls, "ubi_mkvol")
       /\ last.avail > 0 =>
             /\ Count(last.calls, "ubi_mkvol") = 1
             /\ last.bytes = IF last.size = 0 THEN last.avail ELSE last.size

C12_Witness ==
    /\ last.op = "MakeVolume" /\ last.was_attached
    /\ last.code = OK
    /\ last.size = 0 /\ last.avail = MaxBytes /\ last.bytes = MaxBytes
    /\ Has(last.calls, "ubi_mkvol")

(***************************************************************************)
(* C13.  A RemoveVolume call whose device probed as a device node and      *)
(* gave its device info, and whose volume name no volume of the device     *)
(* has, fails with CANNOT_FIND_UBI_VOLUME_ERROR and issues no remove       *)
(* request.                                                                *)
(***************************************************************************)
C13_RemoveMissingVolumeNotFound ==
    (last.op = "RemoveVolume" /\ last.volinfo = "fail") =>
       /\ last.code = "CANNOT_FIND_UBI_VOLUME_ERROR"
       /\ ~Has(last.calls, "ubi_rmvol")

C13_Witness ==
    /\ last.op = "RemoveVolume" /\ last.was_attached
    /\ last.volinfo = "fail"
    /\ Has(last.calls, "ubi_probe_node")
    /\ Has(last.calls, "ubi_get_dev_info")
    /\ last.code = "CANNOT_FIND_UBI_VOLUME_ERROR"

(***************************************************************************)
(* C14.  Attach asks the kernel for its capability before it requests the  *)
(* attach: when the kernel has no control device, Attach fails with        *)
(* CHECK_KERNEL_SUPPORT__ATTACH_DETACH_FEATURE_IS_NOT_SUPPORTED, no        *)
(* ubi_attach is issued and the members of the handle are as before; an    *)
(* ubi_attach is always preceded by ubi_get_info; and when Attach returns  *)
(* success the handle is attached and its file name is the ubi device the  *)
(* kernel gave to its mtd.                                                 *)
(***************************************************************************)
C14_AttachChecksKernelFirst ==
    last.op = "Attach" =>
       /\ last.kernel = "unsupported" =>
             /\ last.code =
                  "CHECK_KERNEL_SUPPORT__ATTACH_DETACH_FEATURE_IS_NOT_SUPPORTED"
             /\ ~Has(last.calls, "ubi_attach")
             /\ handles[last.h].is_attached_ = last.was_attached
       /\ \A i \in DOMAIN last.calls :
             last.calls[i] = "ubi_attach" =>
                \E j \in 1..(i - 1) : last.calls[j] = "ubi_get_info"
       /\ last.code = OK =>
             /\ Has(last.calls, "ubi_attach")
             /\ handles[last.h].is_attached_
             /\ ubi[last.mtd_num_] /= NoDev
             /\ handles[last.h].ubi_device_file_name_ = ubi[last.mtd_num_]

C14_Witness ==
    /\ last.op = "Attach" /\ ~last.was_attached
    /\ last.kernel = "unsupported"
    /\ ~handles[last.h].is_attached_

(***************************************************************************)
(* C15.  In every reachable state at most one live UbiDevice object bound  *)
(* to an mtd number has is_attached_ set.                                  *)
(***************************************************************************)
AttachedTo(m) ==
    {id \in HandleIds : /\ handles[id].st = "live"
                        /\ handles[id].is_attached_
                        /\ handles[id].mtd_num_ = m}

C15_OneAttachedHandlePerMtd ==
    mode \in {"dev", "devok"} =>
       \A m \in Mtds : Cardinality(AttachedTo(m)) <= 1

(***************************************************************************)
(* C16.  After the move constructor or the move assignment from an object  *)
(* S to another object D, D's is_attached_ is the value S's had, S's is    *)
(* false, and D has S's mtd_num_ and ubi_device_file_name_; and the        *)
(* destructor of an object whose flag is false makes no native call, so    *)
(* destroying S after the move requests no detach.                         *)
(***************************************************************************)
C16_MoveTransfersAttachment ==
    /\ (last.op \in {"MoveConstruct", "MoveAssign"} /\ last.src /= last.h) =>
          /\ handles[last.h].st = "live"
          /\ handles[last.h].is_attached_ = last.was_attached
          /\ ~handles[last.src].is_attached_
          /\ handles[last.h].mtd_num_ = last.mtd_num_
          /\ handles[last.h].ubi_device_file_name_ = last.name
    /\ (last.op = "Destroy" /\ ~last.was_attached) =>
          /\ last.calls = <<>>
          /\ last.mtd = -1

C16_Witness ==
    /\ last.op \in {"MoveConstruct", "MoveAssign"} /\ last.src /= last.h
    /\ last.was_attached
    /\ handles[last.h].is_attached_
    /\ handles[last.src].st = "live"

(***************************************************************************)
(* C17.  A request other than Init and Destroy that the server handles     *)
(* while it holds no device (no Init yet, a failed Init, or a Destroy)     *)
(* throws UbiDeviceServerException with error code -1 and calls no device  *)
(* operation.                                                              *)
(***************************************************************************)
ForwardOps ==
    {"MountVolume", "UnmountVolume", "MakeVolume", "RemoveVolume",
     "UpdateVolume", "Format", "Attach", "Detach"}

C17_NoDeviceThrowsNotInitialized ==
    (mode = "server" /\ srv.op \in ForwardOps /\ ~srv.ubi_device_.held) =>
       /\ srv.why \in {"never", "init_failed", "destroyed"}
       /\ srv.thrown
       /\ srv.error_code = -1
       /\ srv.invoked = "none"
       /\ srv.result = NoResult

C17_Witness ==
    /\ mode = "server"
    /\ srv.op = "Detach" /\ ~srv.ubi_device_.held
    /\ srv.why = "destroyed"
    /\ srv.thrown /\ srv.error_code = -1

(***************************************************************************)
(* C18.  A request that called the factory or a device operation returns   *)
(* normally exactly when that operation returned a value, and otherwise    *)
(* throws UbiDeviceServerException carrying the error the operation        *)
(* returned; a request other than Destroy that called nothing does not     *)
(* return normally.                                                        *)
(***************************************************************************)
C18_FacadeThrowsDeviceError ==
    (mode = "server" /\ srv.op /= "none") =>
       /\ srv.invoked /= "none" =>
             /\ srv.result \in DeviceResults
             /\ srv.thrown <=> srv.result /= 0
             /\ srv.thrown => srv.error_code = srv.result
       /\ (~srv.thrown /\ srv.op /= "Destroy") =>
             /\ srv.invoked /= "none"
             /\ srv.result = 0
       /\ srv.op = "Init" =>
             /\ srv.invoked = "CreateUbiDevice"
             /\ srv.ubi_device_.held <=> ~srv.thrown

C18_Witness ==
    /\ mode = "server"
    /\ srv.op = "UpdateVolume" /\ srv.invoked = "UpdateVolume"
    /\ srv.result = MaxErr
    /\ srv.thrown /\ srv.error_code = MaxErr

(***************************************************************************)
(* C19.  The ErrorCode Format returns when the consecutive-bad-block guard *)
(* trips differs from the code it returns when mtd_mark_bad fails and from *)
(* the code it returns when the flash does not allow bad blocks: of two    *)
(* successive Format calls, one ended by the guard and the other by one of *)
(* those two errors, the returned codes differ.                            *)
(***************************************************************************)
MarkFailures ==
    {"FORMAT__BAD_BLOCK_NOT_SUPPORTED_BY_THIS_FLASH_ERROR",
     "FORMAT__MTD_MARK_BAD_FAILED_ERROR"}

C19_GuardTripHasOwnCode ==
    (mode = "format" /\ fmt.pc = "idle") =>
       /\ (GuardTripped /\ fmt.prev.cause \in MarkFailures) =>
             fmt.code /= fmt.prev.code
       /\ (fmt.cause \in MarkFailures /\
           fmt.prev.cause = "FORMAT__CONSECUTIVE_BAD_BLOCKS_EXCEED_LIMIT_ERROR") =>
             fmt.code /= fmt.prev.code

(***************************************************************************)
(* C20.  A MakeVolume call whose device file name probes as a volume node  *)
(* queries no device info and issues no create request, and the code it    *)
(* returns differs from the code MakeVolume returns for every other        *)
(* failure of the probe (no such device, any other error).                 *)
(***************************************************************************)
OtherProbeFailures == {"enodev", "err"}

C20_VolumeNodeHasOwnCode ==
    (last.op = "MakeVolume" /\ last.probe = "vol") =>
       /\ last.code /= OK
       /\ ~Has(last.calls, "ubi_get_dev_info")
       /\ ~Has(last.calls, "ubi_mkvol")
       /\ \A p \in OtherProbeFailures :
             last.code /=
                MakeVolumeRun(last.size, "ok", p, "ok", 1, "ok").ret.code

\* The blocks after eb have seen no native call.
NothingAfter(eb) == \A later \in Ebs : later > eb => fmt.ops[later] = <<>>

IsMarked(eb) == \E i \in DOMAIN fmt.marked : fmt.marked[i] = eb

\* Format has returned code from inside the loop at block eb.
AbortedAt(eb, code) ==
    /\ fmt.pc = "idle" /\ fmt.code = code /\ fmt.eb = eb /\ NothingAfter(eb)
    /\ fmt.layout = NoLayout

\* A failed erase of block eb without EIO ends Format with the
\* erase-failure code; the erase is the last native call on the flash.
EraseErrorAborts(eb) ==
    fmt.res[eb].erase = "err" =>
        /\ AbortedAt(eb, "FORMAT__FAILED_TO_ERASE_ERASEBLOCK_ERROR")
        /\ fmt.ops[eb] = <<"mtd_erase">>

\* C21 as stated: when the erase of a block fails, any error other than
\* EIO aborts Format with the erase-failure code and no later erase, write
\* or mark; with EIO the block is marked bad, gets no header, is not
\* reserved for the volume table, and the loop goes on to the next block.
C21_EraseEioAlwaysContinues ==
    mode = "format" =>
        \A eb \in Ebs :
          /\ EraseErrorAborts(eb)
          /\ fmt.res[eb].erase = "eio" =>
                /\ IsMarked(eb) /\ fmt.ec[eb] = EB_BAD
                /\ ~Has(fmt.ops[eb], "mtd_write")
                /\ eb \notin {fmt.eb1, fmt.eb2}
                /\ fmt.eb > eb

\* C21 amended: when the erase of a block fails, any error other than EIO
\* aborts Format with the erase-failure code and no later erase, write or
\* mark; with EIO the block gets no header and is not reserved for the
\* volume table, and either it is marked bad and the loop goes on to the
\* next block, or marking it fails and Format aborts with the
\* mark-bad-failed code at this block.
C21_EraseFailureHandled ==
    mode = "format" =>
        \A eb \in Ebs :
          /\ EraseErrorAborts(eb)
          /\ fmt.res[eb].erase = "eio" =>
                /\ ~Has(fmt.ops[eb], "mtd_write")
                /\ eb \notin {fmt.eb1, fmt.eb2}
                /\ IF fmt.eb > eb
                   THEN IsMarked(eb) /\ fmt.ec[eb] = EB_BAD
                   ELSE AbortedAt(eb, "FORMAT__MARK_BAD_FAILED_ERROR")

\* C21 happens: the erase of one block failed with EIO, the block was
\* marked and the loop went on; the erase of a later block failed with
\* another error.
C21_Witness ==
    /\ mode = "format"
    /\ \E eb \in Ebs, later \in Ebs :
          /\ eb < later
          /\ fmt.res[eb].erase = "eio" /\ IsMarked(eb)
          /\ fmt.res[later].erase = "err"
          /\ fmt.code = "FORMAT__FAILED_TO_ERASE_ERASEBLOCK_ERROR"

\* The blocks whose erase succeeded, and the lowest of a set of blocks.
Erased == {eb \in Ebs : fmt.res[eb].erase = "ok"}

Lowest(S) == CHOOSE eb \in S : \A other \in S : eb <= other

\* The erase counter the scan and the policy give block eb.
ScanEc(eb) ==
    IF fmt.override_ec /= 0 THEN fmt.format_ec
    ELSE IF fmt.scan[eb].kind = "ec" THEN fmt.scan[eb].ec + 1
    ELSE fmt.mean_ec

\* C22: the two lowest-indexed blocks whose erase succeeds are reserved for
\* the volume table; the loop writes no erase-counter header to them; the
\* layout volume is written at most once, after the loop, to exactly these
\* two blocks with the erase counters computed for them, and a successful
\* Format has written it.
C22_VtblPairIsTwoLowestErased ==
    mode = "format" =>
        /\ fmt.eb1 = IF Erased = {} THEN -1 ELSE Lowest(Erased)
        /\ fmt.eb2 = IF Cardinality(Erased) < 2 THEN -1
                     ELSE Lowest(Erased \ {Lowest(Erased)})
        /\ \A eb \in Ebs :
              eb \in {fmt.eb1, fmt.eb2} =>
                 /\ fmt.ops[eb] = <<"mtd_erase">>
                 /\ fmt.res[eb].ec = ScanEc(eb)
        /\ Count(fmt.calls, "ubigen_write_layout_vol") = fmt.layout.n
        /\ fmt.layout.n <= 1
        /\ fmt.layout.n = 1 =>
              /\ fmt.pc = "idle" /\ fmt.eb = EbCnt
              /\ fmt.eb1 /= -1 /\ fmt.eb2 /= -1
              /\ fmt.layout = [eb1 |-> fmt.eb1, eb2 |-> fmt.eb2,
                               ec1 |-> ScanEc(fmt.eb1),
                               ec2 |-> ScanEc(fmt.eb2), n |-> 1]
        /\ (fmt.pc = "idle" /\ fmt.code = OK) => fmt.layout.n = 1

\* C22 happens: Format succeeded; block 0 was not erased, so the pair is
\* not the first two blocks; the two blocks carry different counters, and
\* a third block got its header in the loop.
C22_Witness ==
    /\ mode = "format" /\ fmt.pc = "idle" /\ fmt.code = OK
    /\ fmt.layout.n = 1
    /\ fmt.eb1 > 0
    /\ fmt.layout.ec1 /= fmt.layout.ec2
    /\ \E eb \in Ebs : fmt.res[eb].write = "ok"

\* A failed header write on block eb that is not an I/O error, with the
\* configured sub-page size (0) different from the minimum I/O size, ends
\* Format with the cannot-write-header code, without a probe.
WriteErrorAborts(eb) ==
    (fmt.res[eb].write = "err" /\ 0 /= fmt.min_io_size) =>
        /\ AbortedAt(eb, "FORMAT__CANNOT_WRITE_EC_HEADER")
        /\ fmt.ops[eb] = <<"mtd_erase", "mtd_write">>

\* Every other failed header write on block eb.
WriteProbed(eb) ==
    \/ fmt.res[eb].write = "eio"
    \/ fmt.res[eb].write = "err" /\ 0 = fmt.min_io_size

\* C23 as stated: when the header write to a block fails, an error other
\* than EIO with differing sub-page and minimum I/O sizes aborts Format with
\* the cannot-write-header code; otherwise the block is tortured, it is
\* marked bad exactly when the torture fails, and in both outcomes the loop
\* goes on to the next block.
C23_ProbeAlwaysContinues ==
    mode = "format" =>
        \A eb \in Ebs :
          /\ WriteErrorAborts(eb)
          /\ WriteProbed(eb) =>
                /\ Has(fmt.ops[eb], "mtd_torture")
                /\ IsMarked(eb) <=> fmt.res[eb].torture = "fail"
                /\ fmt.eb > eb

\* C23 amended: when the header write to a block fails, an error other than
\* EIO with differing sub-page and minimum I/O sizes aborts Format with the
\* cannot-write-header code; otherwise the block is tortured; when the
\* torture succeeds the block is not marked and the loop goes on; when it
\* fails, either the block is marked bad and the loop goes on, or marking
\* it fails and Format aborts with the mark-bad-failed code at this block.
C23_HeaderWriteFailureHandled ==
    mode = "format" =>
        \A eb \in Ebs :
          /\ WriteErrorAborts(eb)
          /\ WriteProbed(eb) =>
                /\ Has(fmt.ops[eb], "mtd_torture")
                /\ fmt.res[eb].torture = "ok" =>
                      /\ fmt.eb > eb
                      /\ ~IsMarked(eb) /\ ~Has(fmt.ops[eb], "mtd_mark_bad")
                /\ fmt.res[eb].torture = "fail" =>
                      IF fmt.eb > eb
                      THEN IsMarked(eb) /\ fmt.ec[eb] = EB_BAD
                      ELSE AbortedAt(eb, "FORMAT__MARK_BAD_FAILED_ERROR")

\* C23 happens: two header writes failed with EIO; the torture of the first
\* block succeeded, the torture of the second failed and the block was
\* marked; Format went on to the end.
C23_Witness ==
    /\ mode = "format" /\ fmt.pc = "idle" /\ fmt.code = OK
    /\ \E eb \in Ebs, later \in Ebs :
          /\ eb < later
          /\ fmt.res[eb].write = "eio" /\ fmt.res[eb].torture = "ok"
          /\ fmt.res[later].write = "eio" /\ fmt.res[later].torture = "fail"
          /\ IsMarked(later)

\* C24: when the loop ends with fewer than two blocks reserved for the
\* volume table, Format fails with the no-eraseblocks-for-volume-table
\* code; the volume table is never created and the layout volume never
\* written.
C24_NoVtblPairNoLayout ==
    (/\ mode = "format" /\ fmt.pc = "idle" /\ fmt.eb = EbCnt
     /\ Cardinality(Erased) < 2) =>
        /\ fmt.code = "FORMAT__NO_ERASEBLOCKS_FOR_VOLUME_TABLE_ERROR"
        /\ ~Has(fmt.calls, "ubigen_create_empty_vtbl")
        /\ ~Has(fmt.calls, "ubigen_write_layout_vol")
        /\ fmt.layout = NoLayout

\* C24 happens: the scan reported at least two good blocks, erases failed
\* with EIO, one block only was reserved when the loop ended, and Format
\* returned the code.
C24_Witness ==
    /\ mode = "format" /\ fmt.pc = "idle" /\ fmt.eb = EbCnt
    /\ fmt.eb1 /= -1 /\ fmt.eb2 = -1
    /\ \E eb \in Ebs : fmt.res[eb].erase = "eio" /\ IsMarked(eb)
    /\ fmt.code = "FORMAT__NO_ERASEBLOCKS_FOR_VOLUME_TABLE_ERROR"

FlashCalls == {"mtd_erase", "mtd_write", "mtd_torture"}

\* The native call on the flash at position i of the calls on block eb
\* comes before the mark of the block.
BeforeMark(eb, i) ==
    \A j \in DOMAIN fmt.ops[eb] :
       fmt.ops[eb][j] = "mtd_mark_bad" => i < j

\* C25: no erase, header write or torture is issued to a block the scan
\* reports bad, or to a block after it was marked bad in the same run;
\* each mark raises si->bad_cnt by one and sets the block's entry of si->ec
\* to EB_BAD; on a flash without bad-block support MarkBadBlocks is
\* rejected without a call of mtd_mark_bad.
C25_BadBlocksLeftAlone ==
    (mode = "format" /\ fmt.scanned) =>
        /\ \A eb \in Ebs :
              /\ fmt.scan[eb] = EB_BAD => fmt.ops[eb] = <<>>
              /\ \A i \in DOMAIN fmt.ops[eb] :
                    fmt.ops[eb][i] \in FlashCalls => BeforeMark(eb, i)
              /\ Count(fmt.ops[eb], "mtd_erase") <= 1
              /\ Count(fmt.ops[eb], "mtd_mark_bad") <= 1
              /\ fmt.ec[eb] = IF IsMarked(eb) THEN EB_BAD ELSE fmt.scan[eb]
              /\ IsMarked(eb) <=>
                    (/\ Has(fmt.ops[eb], "mtd_mark_bad")
                     /\ ~(/\ fmt.eb = eb
                          /\ fmt.cause = "FORMAT__MTD_MARK_BAD_FAILED_ERROR"))
        /\ fmt.bad_cnt = BadCnt(fmt.scan) + Len(fmt.marked)
        /\ \A i \in DOMAIN fmt.marked, j \in DOMAIN fmt.marked :
              i < j => fmt.marked[i] < fmt.marked[j]
        /\ ~fmt.bb_allowed =>
              /\ ~Has(fmt.calls, "mtd_mark_bad")
              /\ fmt.marked = <<>>
              /\ (\E eb \in Ebs : \/ fmt.res[eb].erase = "eio"
                                  \/ fmt.res[eb].torture = "fail") =>
                    /\ fmt.pc = "idle"
                    /\ fmt.cause =
                       "FORMAT__BAD_BLOCK_NOT_SUPPORTED_BY_THIS_FLASH_ERROR"

\* C25 happens: the scan reported a bad block, a later block was marked bad
\* after its erase failed, and Format went through the remaining blocks.
C25_Witness ==
    /\ mode = "format" /\ fmt.pc = "idle" /\ fmt.code = OK
    /\ \E eb \in Ebs, later \in Ebs :
          /\ eb < later
          /\ fmt.scan[eb] = EB_BAD
          /\ fmt.scan[later] /= EB_BAD /\ IsMarked(later)
    /\ fmt.bad_cnt = 2

\* The blocks FormatExec has computed an erase counter for.
Formatted == {eb \in Ebs : fmt.res[eb].erase /= "none"}

\* C26: when fewer than half of the good blocks of the scan carry a valid
\* erase counter, one fixed erase counter, 0 or the scan's mean, is used
\* for every block of the run, the two blocks of the volume table included.
C26_FixedEcWhenFewValid ==
    (/\ mode = "format" /\ fmt.scanned
     /\ 2 * OkCnt(fmt.scan) < GoodCnt(fmt.scan)) =>
        \E fixed \in {0, fmt.mean_ec} :
           /\ \A eb \in Formatted : fmt.res[eb].ec = fixed
           /\ fmt.ec1 /= -1 => fmt.ec1 = fixed
           /\ fmt.ec2 /= -1 => fmt.ec2 = fixed
           /\ fmt.layout.n = 1 =>
                 fmt.layout.ec1 = fixed /\ fmt.layout.ec2 = fixed

\* C26 happens: one good block of four carries a valid counter, it is one
\* of the two blocks of the volume table, and Format succeeded.
C26_Witness ==
    /\ mode = "format" /\ fmt.pc = "idle" /\ fmt.code = OK
    /\ OkCnt(fmt.scan) = 1 /\ GoodCnt(fmt.scan) = 4
    /\ fmt.layout.n = 1
    /\ fmt.scan[fmt.eb2].kind = "ec"
    /\ Formatted = Ebs

\* C27: Format of a partition that is attached to UBI fails with the
\* already-attached code before the scan and before any erase, write or
\* mark; the attach table is left as it was.
C27_AttachedPartitionNotFormatted ==
    (/\ mode = "format" /\ ubi[FormatMtd] /= NoDev
     /\ Has(fmt.calls, "mtd_num2ubi_dev")) =>
        /\ fmt.pc = "idle"
        /\ fmt.code =
              "FORMAT__MTD_DEVICE_IS_ALREADY_ATTACHED_TO_UBI_DEVICE_ERROR"
        /\ ~Has(fmt.calls, "ubi_scan")
        /\ Untouched(fmt.calls)

\* C28: when UpdateVolume returns success, the volume has accepted exactly
\* the image bytes at the offsets skip_bytes .. skip_bytes + length - 1, in
\* order, where length is the length given to ubi_update_start; every
\* accepted byte is a byte of the image.
C28_VolumeGetsImageRange ==
    (mode = "update" /\ upd.pc = "idle" /\ upd.code = OK) =>
        /\ upd.started
        /\ upd.vol = Offsets(upd.skip_bytes, upd.declared)
        /\ Len(upd.vol) = upd.declared
        /\ \A i \in DOMAIN upd.vol : upd.vol[i] < upd.file_size

\* C28 happens: a transfer of three bytes with a short read, a short write
\* and an interrupted call succeeded.
C28_Witness ==
    /\ mode = "update" /\ upd.pc = "idle" /\ upd.code = OK
    /\ upd.declared = MaxFile
    /\ upd.short_rd /\ upd.short_wr /\ upd.intr > 0

\* C29: in UbiWrite a write that returns 0, or a negative result with an
\* errno other than EINTR, makes UpdateVolume return the write-failed code
\* with no later read or write; a negative result with EINTR is retried
\* with the same buffer position and size; a write of n > 0 bytes advances
\* the buffer position by n, reduces the size by n, gives the volume
\* exactly these n bytes, and leaves the rest to the next write.
C29_WriteResultsHandled ==
    (mode = "update" /\ upd.wlast.kind /= "none") =>
        LET w == upd.wlast IN
        /\ w.kind \in {"zero", "err"} =>
              /\ upd.pc = "idle"
              /\ upd.code = "UPDATE_VOL__UBI_WRITE_FAILED_ERROR"
              /\ upd.vol = w.vol
              /\ upd.woff = w.woff /\ upd.wsize = w.wsize
        /\ w.kind = "intr" =>
              /\ upd.pc = "write"
              /\ upd.vol = w.vol
              /\ upd.woff = w.woff /\ upd.wsize = w.wsize
        /\ w.kind = "pos" =>
              /\ upd.woff = w.woff + w.n
              /\ upd.wsize = w.wsize - w.n
              /\ upd.vol = w.vol \o SubSeq(upd.buf, w.woff + 1, w.woff + w.n)
              /\ upd.wsize > 0 => upd.pc = "write"
              /\ upd.wsize = 0 =>
                    \/ upd.pc = "read"
                    \/ upd.pc = "idle" /\ upd.code = OK

\* C29 happens: with one call interrupted and one write short, the
\* remainder of the chunk is written from where the short write stopped.
C29_Witness ==
    /\ mode = "update"
    /\ upd.wlast.kind = "pos" /\ upd.wlast.woff > 0
    /\ upd.short_wr /\ upd.intr > 0 /\ errno = "EINTR"
    /\ upd.wsize = 0

\* C30: every UpdateVolume call returns, with success or with an error,
\* when at most MaxIntr reads and writes are interrupted; a read that
\* returns nothing at the end of the image, before the declared length is
\* consumed, ends the call.
C30_UpdateVolumeTerminates ==
    <>(mode = "update" /\ upd.pc = "idle" /\ upd.code /= "NONE")

\* Create has issued a call of Attach: its first native call is the open
\* of libubi.
AttachIssued(calls) ==
    Has(calls, "libubi_open") \/ Has(calls, "libubi_open_failed")

\* C31: Create resolves the name, then calls Format only when asked, then
\* Attach.  A failed resolution issues neither Format nor Attach; a failed
\* Format issues no Attach and its code is returned; a failed Attach
\* returns its code and no object; on success one attach request and no
\* detach request were issued and the returned object is attached.
C31_CreateOrder ==
    (mode = "create" /\ last.op = "Create") =>
        LET id == last.h
            m == last.mtd_num_
        IN
        /\ last.resolve /= "ok" =>
              /\ last.code \in {"CREATE__MTD_TABLE_CREATE_FAILED_ERROR",
                                "CREATE__MTD_NAME_TO_NUM_NOT_FOUND_ERROR"}
              /\ ~Has(last.calls, "Format") /\ ~AttachIssued(last.calls)
              /\ handles[id].st = "none"
        /\ Has(last.calls, "Format") <=>
              (last.resolve = "ok" /\ last.is_to_format_first)
        /\ last.format \in FormatErrors =>
              /\ last.code = last.format
              /\ ~AttachIssued(last.calls)
              /\ handles[id].st = "none"
        /\ (last.resolve = "ok" /\ last.format \notin FormatErrors) =>
              /\ AttachIssued(last.calls)
              /\ last.code = last.attach
        /\ (last.attach \notin {"none", OK}) => handles[id].st = "none"
        /\ \A i \in DOMAIN last.calls, j \in DOMAIN last.calls :
              /\ (last.calls[i] = "GetMtdNum" /\ last.calls[j] = "Format")
                    => i < j
              /\ (last.calls[i] \in {"GetMtdNum", "Format"}
                  /\ last.calls[j] \in {"libubi_open", "libubi_open_failed",
                                        "ubi_attach"}) => i < j
        /\ last.code = OK =>
              /\ Count(last.calls, "ubi_attach") = 1
              /\ ~Has(last.calls, "ubi_detach_mtd")
              /\ handles[id].st = "live" /\ handles[id].is_attached_
              /\ handles[id].mtd_num_ = m
              /\ ubi[m] /= NoDev
              /\ handles[id].ubi_device_file_name_ = ubi[m]
              /\ attachments[Len(attachments)] = [mtd |-> m, detachReqs |-> 0]

\* C31 happens: Create succeeded with a Format first, for the second
\* attachment of the behaviour.
C31_Witness ==
    /\ mode = "create" /\ last.op = "Create" /\ last.code = OK
    /\ last.format = OK /\ last.is_to_format_first
    /\ handles[last.h].is_attached_
    /\ Len(attachments) = 2

\* C32: when two Format runs on two partitions are interleaved, each
\* decision of the consecutive-bad-block check in a run is the decision
\* the run gets on its own: the other run's marks neither make it abort
\* nor keep it from aborting.
C32_GuardDecidesAsAlone ==
    mode = "format2" =>
        \A r \in FormatRuns : fmt[r].dec = fmt[r].alone_dec

\* Some live object holds mtd m with is_attached_ true: its destructor
\* will ask for the detach.
HeldByHandle(m) ==
    \E id \in HandleIds :
       /\ handles[id].st = "live" /\ handles[id].is_attached_
       /\ handles[id].mtd_num_ = m

\* C33: an Attach() that returns an error leaves no attachment behind:
\* when the Attach() called by Create has failed, the partition is not
\* attached by that call, or a live object with is_attached_ true holds it.
C33_FailedAttachLeavesNothing ==
    (/\ mode = "create" /\ last.op = "Create"
     /\ last.attach \notin {"none", OK}) =>
        \/ ~last.attached
        \/ ubi[last.mtd_num_] = NoDev
        \/ HeldByHandle(last.mtd_num_)

\* The blocks that are not bad when Format returns and are not reserved
\* for the volume table.
DataBlocks ==
    {eb \in Ebs : fmt.ec[eb] /= EB_BAD /\ eb \notin {fmt.eb1, fmt.eb2}}

\* C34 as stated: when Format returns success, the erase-counter header
\* of every block that is not bad and not reserved for the volume table
\* has been written successfully.
C34_EveryDataBlockHasHeader ==
    (mode = "format" /\ fmt.pc = "idle" /\ fmt.code = OK) =>
        \A eb \in DataBlocks : fmt.res[eb].write = "ok"

\* C34 amended: when Format returns success, every block that is not bad
\* and not reserved for the volume table was erased, and either its
\* erase-counter header has been written successfully, or the write failed
\* and the torture of the block succeeded, which leaves the block erased
\* without a header.
C34_DataBlockHasHeaderOrPassedTorture ==
    (mode = "format" /\ fmt.pc = "idle" /\ fmt.code = OK) =>
        \A eb \in DataBlocks :
           /\ fmt.res[eb].erase = "ok"
           /\ \/ fmt.res[eb].write = "ok"
              \/ /\ fmt.res[eb].write = "eio"
                 /\ fmt.res[eb].torture = "ok"
                 /\ fmt.ops[eb] = <<"mtd_erase", "mtd_write", "mtd_torture">>

\* C34 happens: Format succeeded; one block got its header, the header
\* write of another failed and its torture succeeded.
C34_Witness ==
    /\ mode = "format" /\ fmt.pc = "idle" /\ fmt.code = OK
    /\ \E eb \in DataBlocks, other \in DataBlocks :
          /\ fmt.res[eb].write = "ok"
          /\ fmt.res[other].write = "eio" /\ fmt.res[other].torture = "ok"

\* C35: Init releases the device the server holds before it calls the
\* factory; when the factory fails the server holds no device, and the
\* forwarding requests throw -1 as long as none is held; Destroy leaves
\* the server without a device, and does nothing when none is held.
C35_InitReleasesFirst ==
    mode = "server" =>
        /\ srv.op = "Init" =>
              /\ srv.steps = IF srv.held_before
                             THEN <<"~IUbiDevice", "CreateUbiDevice">>
                             ELSE <<"CreateUbiDevice">>
              /\ srv.released = srv.held_before
              /\ srv.result /= 0 =>
                    /\ ~srv.ubi_device_.held
                    /\ srv.thrown /\ srv.error_code = srv.result
              /\ srv.result = 0 => srv.ubi_device_.held /\ ~srv.thrown
        /\ srv.op = "Destroy" =>
              /\ ~srv.ubi_device_.held /\ ~srv.thrown
              /\ srv.steps = IF srv.held_before THEN <<"~IUbiDevice">>
                             ELSE <<>>
        /\ srv.op \in ForwardOps =>
              /\ srv.ubi_device_.held = srv.held_before
              /\ ~srv.held_before =>
                    /\ srv.thrown /\ srv.error_code = -1
                    /\ srv.steps = <<>>
        /\ srv.ubi_device_.held <=> srv.why = "held"
        /\ srv.why \in {"never", "init_failed", "destroyed", "held"}

\* C35 happens: an Init found a device held, released it, and its own
\* creation failed.
C35_Witness ==
    /\ mode = "server" /\ srv.op = "Init"
    /\ srv.held_before /\ srv.released
    /\ srv.result /= 0 /\ ~srv.ubi_device_.held
    /\ srv.why = "init_failed"

\* The workers that are inside an operation of device d.
Inside(d) ==
    {t \in Workers : srv.thr[t].pc = "in_device" /\ srv.thr[t].device = d}

\* C36: with concurrent requests, at most one worker is inside an
\* operation of a device at a time, and a worker is inside an operation
\* only of the device the server still holds, never of one that a Destroy
\* or an Init has released.
C36_OneOperationPerHeldDevice ==
    mode = "rpc" =>
        \A d \in 1..(MaxDevices + 1) :
            /\ Cardinality(Inside(d)) <= 1
            /\ Inside(d) /= {} => srv.ubi_device_ = d

\* C37: the length UpdateVolume passes to ubi_update_start is never
\* negative; with size 0 and skip_bytes beyond the end of the image file
\* the call returns an error without calling ubi_update_start, read or
\* write.
C37_DeclaredLengthNotNegative ==
    mode = "update" =>
        /\ upd.started => upd.declared >= 0
        /\ (upd.code /= "NONE" /\ upd.size = 0
                /\ upd.skip_bytes > upd.file_size) =>
              /\ ~Has(upd.calls, "ubi_update_start") /\ ~upd.started
              /\ upd.pc = "idle" /\ upd.code /= OK

\* C38: the device's MakeVolume and UpdateVolume are called with the
\* values the facade received: size_in_bytes, skip_bytes and size arrive
\* unchanged, and a size_in_bytes that is not 0 does not arrive as 0.
C38_DeviceGetsCallersValues ==
    (mode = "server" /\ srv.op \in {"MakeVolume", "UpdateVolume"}
        /\ srv.invoked = srv.op) =>
        /\ srv.passed = srv.given
        /\ (srv.op = "MakeVolume" /\ srv.given[1] /= 0) =>
              srv.passed[1] /= 0
=========================================================================
